---- MODULE Spec2Model ----
(***************************************************************************)
(* A model of the coding-agent flow of src/flow.py: the decision loop      *)
(* (MainDecisionAgent), the action nodes it dispatches to, the edit        *)
(* sub-flow (ReadTargetFileNode, AnalyzeAndPlanNode, ApplyChangesNode) and  *)
(* the final FormatResponseNode, wired as in create_main_flow.             *)
(*                                                                         *)
(* Python values are modelled as follows.                                  *)
(*   - a dict is a record whose field py is "dict" and whose other fields  *)
(*     are the dict's keys; a str that stands where a dict is expected is  *)
(*     a record whose py is "str";                                         *)
(*   - None is the string PyNone where a string may stand;                 *)
(*   - a text (an LLM response, a YAML block) is a sequence of tokens,     *)
(*     each token a piece of text that no separator searched for by the    *)
(*     code straddles, so substring tests and str.split on the text are    *)
(*     subsequence tests and splits on the tokens.                         *)
(***************************************************************************)
EXTENDS Integers, Sequences, FiniteSets, TLC

(***************************************************************************)
(* Bounds of the model.                                                    *)
(***************************************************************************)
\* run_flow_with_limit is called with max_iterations in 1..MaxM
MaxM == 2
\* the decision node runs at most MaxSteps times in one behaviour
MaxSteps == 2
\* the file an edit is applied to has 1..MaxLines lines
MaxLines == 3
\* a plan applied to that file has 1..MaxOps operations
MaxOps == 2

(***************************************************************************)
(* Tokens of a text.                                                       *)
(***************************************************************************)
\* the three backquotes that open or close a fenced block
Fence == "FENCE"
\* the word "yaml"; right after a Fence the two read as a fence tagged yaml
TagYaml == "yaml"
\* the word "yml"
TagYml == "yml"
\* a line break (white space, removed by str.strip at either end)
NL == "\n"
\* a word of prose, with the blank after it, that does not contain the letters
\* "tool"
Prose == "Sure."
\* a word of prose that contains the letters "tool"
ProseTool == "tooling"

PyNone == "<None>"

\* the last element of a non-empty sequence: s[-1]
Last(s) == s[Len(s)]

(***************************************************************************)
(* str operations on token sequences.                                      *)
(***************************************************************************)
\* the index of the first occurrence of pat in s, 0 when there is none
Find(s, pat) ==
  LET hits == {i \in 1..(Len(s) - Len(pat) + 1) : SubSeq(s, i, i + Len(pat) - 1) = pat}
  IN  IF hits = {} THEN 0 ELSE CHOOSE i \in hits : \A j \in hits : i <= j

\* pat in s
Contains(s, pat) == Find(s, pat) # 0

\* s.split(pat)[0]: the text before the first occurrence of pat
Split0(s, pat) == IF Contains(s, pat) THEN SubSeq(s, 1, Find(s, pat) - 1) ELSE s

\* s.split(pat)[1], for a text s that contains pat: the text between the first
\* occurrence of pat and the next one
Split1(s, pat) == Split0(SubSeq(s, Find(s, pat) + Len(pat), Len(s)), pat)

\* s.strip()
Strip(s) ==
  LET keep == {i \in 1..Len(s) : s[i] # NL}
  IN  IF keep = {} THEN <<>>
      ELSE SubSeq(s, CHOOSE i \in keep : \A j \in keep : i <= j,
                     CHOOSE i \in keep : \A j \in keep : j <= i)

(***************************************************************************)
(* Python values whose type varies where they are used.                    *)
(***************************************************************************)
PyBool(b) == [py |-> "bool", v |-> b]

PyList(items) == [py |-> "list", items |-> items]

PyInt(n) == [py |-> "int", v |-> n]

\* isinstance(x, int): bool is a subclass of int
IsInt(x) == x.py \in {"int", "bool"}

\* the number an int is in comparisons and arithmetic: True is 1, False is 0
IntValue(x) == IF x.py = "bool" THEN (IF x.v THEN 1 ELSE 0) ELSE x.v

\* a str, as the sequence of its words or lines
PyStr(text) == [py |-> "str", words |-> text]

\* the keys of a dict
Keys(d) == DOMAIN d \ {"py"}

\* bool(v): the truth value Python gives v in a condition
Truthy(v) ==
  CASE v.py = "none" -> FALSE
    [] v.py = "bool" -> v.v
    [] v.py = "int"  -> v.v # 0
    [] v.py = "list" -> v.items # <<>>
    [] v.py = "str"  -> v.words # <<>>
    [] v.py = "dict" -> Keys(v) # {}

\* d.get(k) of a dict of strings: None when the key is absent
Get(d, k) == IF k \in DOMAIN d THEN d[k] ELSE PyNone

\* bool(s) of a value that is a str or None
NonEmpty(s) == s \notin {PyNone, ""}

(***************************************************************************)
(* The YAML documents the Generation Client may write.  A document token   *)
(* is the text of one block mapping; DocValue is what yaml.safe_load makes *)
(* of it.                                                                  *)
(***************************************************************************)
EmptyDict == [k \in {} |-> ""]

Tools == {"read_file", "grep_search", "list_dir", "delete_file", "insert_file",
          "edit_file", "create_directory", "delete_directory", "finish"}

\* tool: <tool> / reason: because / params: <params>; a document may lack
\* one of the keys or hold a key of its own (result), yaml.safe_load keeps
\* whatever the mapping holds
Decision(tool, params) ==
  [py |-> "dict", tool |-> tool, reason |-> "because", params |-> params]

DecisionDocs ==
  {"doc_read_file", "doc_read_file_no_target", "doc_grep_search", "doc_list_dir",
   "doc_delete_file", "doc_insert_file", "doc_edit_file", "doc_create_directory",
   "doc_delete_directory", "doc_finish", "doc_unknown_tool", "doc_empty_tool",
   "doc_null_tool", "doc_no_tool", "doc_no_reason", "doc_no_params",
   "doc_grep_search_no_query", "doc_delete_file_no_target",
   "doc_insert_file_no_target", "doc_edit_file_no_target",
   "doc_create_directory_no_target", "doc_delete_directory_no_target",
   "doc_insert_file_empty_content", "doc_insert_file_no_content",
   "doc_edit_file_no_instructions", "doc_edit_file_empty_code_edit",
   "doc_read_file_empty_target", "doc_delete_directory_null_target",
   "doc_grep_search_empty_query", "doc_read_file_with_result"}

DecisionDocValue(t) ==
  CASE t = "doc_read_file" -> Decision("read_file", [target_file |-> "config.yaml"])
    [] t = "doc_read_file_no_target" -> Decision("read_file", EmptyDict)
    [] t = "doc_grep_search" -> Decision("grep_search", [query |-> "x"])
    [] t = "doc_list_dir" -> Decision("list_dir", [relative_workspace_path |-> "utils"])
    [] t = "doc_delete_file" -> Decision("delete_file", [target_file |-> "temp.txt"])
    [] t = "doc_insert_file" ->
         Decision("insert_file", [target_file |-> "new_file.txt", content |-> "text"])
    [] t = "doc_edit_file" ->
         Decision("edit_file", [target_file |-> "main.py", instructions |-> "add",
                                code_edit |-> "pattern"])
    [] t = "doc_create_directory" -> Decision("create_directory", [target_dir |-> "config"])
    [] t = "doc_delete_directory" -> Decision("delete_directory", [target_dir |-> "build"])
    [] t = "doc_finish" -> Decision("finish", EmptyDict)
    [] t = "doc_unknown_tool" -> Decision("run_shell", EmptyDict)
    [] t = "doc_empty_tool" -> Decision("", EmptyDict)
    [] t = "doc_null_tool" -> Decision(PyNone, EmptyDict)
    [] t = "doc_no_tool" -> [py |-> "dict", reason |-> "because", params |-> EmptyDict]
    [] t = "doc_no_reason" ->
         [py |-> "dict", tool |-> "list_dir",
          params |-> [relative_workspace_path |-> "utils"]]
    [] t = "doc_no_params" -> [py |-> "dict", tool |-> "read_file", reason |-> "because"]
    [] t = "doc_grep_search_no_query" -> Decision("grep_search", [case_sensitive |-> "true"])
    [] t = "doc_delete_file_no_target" -> Decision("delete_file", EmptyDict)
    [] t = "doc_insert_file_no_target" -> Decision("insert_file", [content |-> "text"])
    [] t = "doc_edit_file_no_target" ->
         Decision("edit_file", [instructions |-> "add", code_edit |-> "pattern"])
    [] t = "doc_create_directory_no_target" -> Decision("create_directory", EmptyDict)
    [] t = "doc_delete_directory_no_target" -> Decision("delete_directory", EmptyDict)
    [] t = "doc_read_file_empty_target" -> Decision("read_file", [target_file |-> ""])
    [] t = "doc_delete_directory_null_target" ->
         Decision("delete_directory", [target_dir |-> PyNone])
    [] t = "doc_grep_search_empty_query" -> Decision("grep_search", [query |-> ""])
    [] t = "doc_read_file_with_result" ->
         [py |-> "dict", tool |-> "read_file", reason |-> "because",
          params |-> [target_file |-> "config.yaml"],
          result |-> [success |-> PyBool(TRUE), content |-> <<"guessed">>]]
    [] t = "doc_insert_file_empty_content" ->
         Decision("insert_file", [target_file |-> "new_file.txt", content |-> ""])
    [] t = "doc_insert_file_no_content" ->
         Decision("insert_file", [target_file |-> "new_file.txt"])
    [] t = "doc_edit_file_no_instructions" ->
         Decision("edit_file", [target_file |-> "main.py", code_edit |-> "pattern"])
    [] t = "doc_edit_file_empty_code_edit" ->
         Decision("edit_file", [target_file |-> "main.py", instructions |-> "add",
                                code_edit |-> ""])

\* - start_line: s / end_line: e / replacement: r
Op(s, e, r) ==
  [py |-> "dict", start_line |-> PyInt(s), end_line |-> PyInt(e), replacement |-> PyStr(r)]

\* reasoning: why / operations: <ops>
Plan(ops) == [py |-> "dict", reasoning |-> PyStr(<<"why">>), operations |-> PyList(ops)]

PlanDocs ==
  {"plan_two_ops", "plan_append", "plan_start_zero", "plan_end_beyond",
   "plan_inverted", "plan_no_reasoning", "plan_empty_reasoning",
   "plan_no_operations", "plan_empty_operations", "plan_operations_not_list",
   "plan_op_not_dict", "plan_op_no_end", "plan_start_not_int", "plan_overlap",
   "plan_bool_lines", "plan_start_false"}

PlanDocValue(t) ==
  CASE t = "plan_two_ops" -> Plan(<<Op(1, 1, <<"a">>), Op(2, 2, <<"b">>)>>)
    [] t = "plan_append" -> Plan(<<Op(3, 3, <<"tail">>)>>)
    [] t = "plan_overlap" -> Plan(<<Op(1, 2, <<"a">>), Op(2, 2, <<"b">>)>>)
    [] t = "plan_start_zero" -> Plan(<<Op(1, 1, <<"a">>), Op(0, 1, <<"b">>)>>)
    [] t = "plan_end_beyond" -> Plan(<<Op(1, 4, <<"a">>)>>)
    [] t = "plan_inverted" -> Plan(<<Op(2, 1, <<"a">>)>>)
    [] t = "plan_no_reasoning" ->
         [py |-> "dict", operations |-> PyList(<<Op(1, 1, <<"a">>)>>)]
    [] t = "plan_empty_reasoning" ->
         [py |-> "dict", reasoning |-> PyStr(<<>>),
          operations |-> PyList(<<Op(1, 1, <<"a">>)>>)]
    [] t = "plan_no_operations" -> [py |-> "dict", reasoning |-> PyStr(<<"why">>)]
    [] t = "plan_empty_operations" -> Plan(<<>>)
    [] t = "plan_operations_not_list" ->
         [py |-> "dict", reasoning |-> PyStr(<<"why">>), operations |-> PyStr(<<"none">>)]
    [] t = "plan_op_not_dict" -> Plan(<<PyStr(<<"delete">>)>>)
    [] t = "plan_op_no_end" ->
         Plan(<<[py |-> "dict", start_line |-> PyInt(1), replacement |-> PyStr(<<"a">>)]>>)
    [] t = "plan_bool_lines" ->
         Plan(<<[py |-> "dict", start_line |-> PyBool(TRUE), end_line |-> PyBool(TRUE),
                 replacement |-> PyStr(<<"a">>)]>>)
    [] t = "plan_start_false" ->
         Plan(<<[py |-> "dict", start_line |-> PyBool(FALSE), end_line |-> PyInt(1),
                 replacement |-> PyStr(<<"a">>)]>>)
    [] t = "plan_start_not_int" ->
         Plan(<<[py |-> "dict", start_line |-> PyStr(<<"1">>), end_line |-> PyInt(1),
                 replacement |-> PyStr(<<"a">>)]>>)

\* a decision whose content parameter is a literal block ("content: |") that
\* holds a fenced snippet. Its text is the token "doc_insert_file_usage" (the
\* mapping up to and with the first line of the literal block), then, indented
\* under it, a fence, a line of the snippet and a fence.
LiteralBlockDocs == {"doc_insert_file_usage"}

FencedContentBlock ==
  <<"doc_insert_file_usage", NL, Fence, NL, Prose, NL, Fence>>

\* the mapping the text loads as when it is cut after the first line of the
\* literal block
LiteralBlockDocValue(t) ==
  Decision("insert_file", [target_file |-> "README.md", content |-> "Usage:"])

DocTokens == DecisionDocs \cup PlanDocs \cup LiteralBlockDocs

DocValue(t) ==
  IF t \in DecisionDocs THEN DecisionDocValue(t)
  ELSE IF t \in LiteralBlockDocs THEN LiteralBlockDocValue(t)
  ELSE PlanDocValue(t)

\* a dict updated with the keys of another: {**d, **e}
Update(d, e) == e @@ d

\* the mapping a sequence of block-mapping lines loads as: a key given twice
\* keeps its last value
RECURSIVE LoadDocs(_)
LoadDocs(docs) ==
  IF Len(docs) = 1 THEN DocValue(docs[1])
  ELSE Update(LoadDocs(SubSeq(docs, 1, Len(docs) - 1)), DocValue(docs[Len(docs)]))

(***************************************************************************)
(* yaml.safe_load of a text: None for an empty text, a str for prose (a    *)
(* plain scalar), a dict for block mappings, and a YAMLError (py "error")  *)
(* for a text that starts with a backquote or mixes prose and mappings;    *)
(* the lines after the head of a literal block belong to the block.        *)
(***************************************************************************)
YamlLoad(text) ==
  LET body == SelectSeq(text, LAMBDA t : t # NL)
      docs == SelectSeq(body, LAMBDA t : t \in DocTokens)
  IN  IF body = <<>> THEN [py |-> "none"]
      ELSE IF body[1] = Fence THEN [py |-> "error"]
      ELSE IF body[1] \in LiteralBlockDocs /\ Len(docs) = 1 /\ Len(body) > 1
        THEN [DocValue(body[1]) EXCEPT !.params.content = "Usage: and the snippet"]
      ELSE IF docs = <<>> THEN [py |-> "str", words |-> body]
      ELSE IF Len(docs) = Len(body) THEN LoadDocs(docs)
      ELSE [py |-> "error"]

(***************************************************************************)
(* MainDecisionAgent.exec, after the call of the Generation Client.        *)
(***************************************************************************)
\* the text handed to yaml.safe_load: the first fenced block tagged yaml, else
\* the first tagged yml, else the first fenced block, else (or when that block
\* is empty) the whole response
ExtractDecisionYaml(response) ==
  LET yaml_content ==
        IF Contains(response, <<Fence, TagYaml>>)
          THEN Strip(Split0(Split1(response, <<Fence, TagYaml>>), <<Fence>>))
        ELSE IF Contains(response, <<Fence, TagYml>>)
          THEN Strip(Split0(Split1(response, <<Fence, TagYml>>), <<Fence>>))
        ELSE IF Contains(response, <<Fence>>)
          THEN Strip(Split1(response, <<Fence>>))
        ELSE <<>>
  IN  IF yaml_content = <<>> THEN Strip(response) ELSE yaml_content

\* "tool" in decision: a key of a dict, a substring of a str
HasTool(decision) ==
  CASE decision.py = "dict" -> "tool" \in Keys(decision)
    [] decision.py = "str"  -> \E i \in DOMAIN decision.words : decision.words[i] = ProseTool

\* the decision returned by the except branch
SyntheticFinish ==
  [py |-> "dict", tool |-> "finish", reason |-> "Error parsing tool decision",
   params |-> EmptyDict]

\* the value exec returns for a response
ParseDecision(response) ==
  LET decision == YamlLoad(ExtractDecisionYaml(response))
  IN  IF decision.py = "error" THEN SyntheticFinish
      ELSE IF ~Truthy(decision) \/ ~HasTool(decision) THEN SyntheticFinish
      ELSE decision

(***************************************************************************)
(* format_history_summary: the error it raises on a history, "" when it    *)
(* renders the history.                                                    *)
(***************************************************************************)
ActionRenderError(action) ==
  IF "tool" \notin Keys(action) THEN "KeyError: 'tool'"
  ELSE IF "reason" \notin Keys(action) THEN "KeyError: 'reason'"
  ELSE IF "result" \notin Keys(action) THEN ""
  ELSE IF /\ action.tool = "grep_search"
          /\ Truthy(action.result.success)
          /\ action.result.matches.py \notin {"list", "str", "dict"}
       THEN "TypeError: object of type 'bool' has no len()"
  ELSE ""

FormatHistoryError(history_) ==
  LET bad == {i \in 1..Len(history_) : ActionRenderError(history_[i]) # ""}
  IN  IF bad = {} THEN ""
      ELSE ActionRenderError(history_[CHOOSE i \in bad : \A j \in bad : i <= j])

(***************************************************************************)
(* The flows of create_main_flow and create_edit_agent.                    *)
(***************************************************************************)
\* a wiring that dispatches "finish" to the read_file handler
MainFlowSuccessorsFinishToRead(node) ==
  CASE node = "main_agent" ->
         [read_file |-> "read_action", grep_search |-> "grep_action",
          list_dir |-> "list_dir_action", delete_file |-> "delete_action",
          insert_file |-> "insert_action", edit_file |-> "edit_agent",
          create_directory |-> "create_dir_action",
          delete_directory |-> "delete_dir_action", finish |-> "read_action"]
    [] node \in {"read_action", "grep_action", "list_dir_action", "delete_action",
                 "insert_action", "edit_agent", "create_dir_action",
                 "delete_dir_action"} -> [default |-> "main_agent"]
    [] node = "format_response" -> EmptyDict

\* a wiring that sends delete_dir_action on to format_response
MainFlowSuccessorsNoLoopBack(node) ==
  CASE node = "main_agent" ->
         [read_file |-> "read_action", grep_search |-> "grep_action",
          list_dir |-> "list_dir_action", delete_file |-> "delete_action",
          insert_file |-> "insert_action", edit_file |-> "edit_agent",
          create_directory |-> "create_dir_action",
          delete_directory |-> "delete_dir_action", finish |-> "format_response"]
    [] node \in {"read_action", "grep_action", "list_dir_action", "delete_action",
                 "insert_action", "edit_agent", "create_dir_action"} ->
         [default |-> "main_agent"]
    [] node = "delete_dir_action" -> [default |-> "format_response"]
    [] node = "format_response" -> EmptyDict

\* a wiring that goes from format_response back to the decision node
MainFlowSuccessorsSummaryLoops(node) ==
  CASE node = "main_agent" ->
         [read_file |-> "read_action", grep_search |-> "grep_action",
          list_dir |-> "list_dir_action", delete_file |-> "delete_action",
          insert_file |-> "insert_action", edit_file |-> "edit_agent",
          create_directory |-> "create_dir_action",
          delete_directory |-> "delete_dir_action", finish |-> "format_response"]
    [] node \in {"read_action", "grep_action", "list_dir_action", "delete_action",
                 "insert_action", "edit_agent", "create_dir_action",
                 "delete_dir_action"} -> [default |-> "main_agent"]
    [] node = "format_response" -> [done |-> "main_agent"]

\* create_main_flow: the successors registered for each node of the main flow
MainFlowSuccessors(node) ==
  CASE node = "main_agent" ->
         [read_file |-> "read_action", grep_search |-> "grep_action",
          list_dir |-> "list_dir_action", delete_file |-> "delete_action",
          insert_file |-> "insert_action", edit_file |-> "edit_agent",
          create_directory |-> "create_dir_action",
          delete_directory |-> "delete_dir_action", finish |-> "format_response"]
    [] node \in {"read_action", "grep_action", "list_dir_action", "delete_action",
                 "insert_action", "edit_agent", "create_dir_action",
                 "delete_dir_action"} -> [default |-> "main_agent"]
    [] node = "format_response" -> EmptyDict

EditFlowSuccessors(node) ==
  CASE node = "read_target" -> [default |-> "analyze_plan"]
    [] node = "analyze_plan" -> [default |-> "apply_changes"]
    [] node = "apply_changes" -> EmptyDict

\* Flow.get_next_node: the successor registered for the action a node returned
\* ("default" for None or ""), None when there is none: the flow then ends
GetNextNode(successors, action) ==
  LET a == IF NonEmpty(action) THEN action ELSE "default"
  IN  IF a \in DOMAIN successors THEN successors[a] ELSE PyNone

\* the node the main flow runs after node returned action; running the edit
\* agent is running its start node
MainFlowNext(node, action) ==
  LET nxt == GetNextNode(MainFlowSuccessors(node), action)
  IN  IF nxt = "edit_agent" THEN "read_target" ELSE nxt

\* the node run after a node of the edit agent returned action; when the edit
\* flow ends the main flow goes on from edit_agent
EditFlowNext(node, action) ==
  LET nxt == GetNextNode(EditFlowSuccessors(node), action)
  IN  IF nxt = PyNone THEN MainFlowNext("edit_agent", action) ELSE nxt

(***************************************************************************)
(* The inputs of a run.                                                    *)
(***************************************************************************)
\* shared["user_query"] and shared["working_dir"] as run_flow sets them
UserQuery == "show me config.yaml"

WorkingDir == "project"

\* a fenced block tagged yaml that holds one document
Fenced(doc) == <<Fence, TagYaml, NL, doc, NL, Fence>>

\* what the Generation Client may answer to a decision prompt
DecisionResponses ==
  {Fenced(doc) : doc \in DecisionDocs}
  \cup {<<>>,
        <<Prose>>,
        <<Prose, ProseTool>>,
        <<Prose, NL, "doc_read_file">>,
        <<"doc_read_file">>,
        <<Fence, TagYaml, NL, Fence>>,
        <<Fence, TagYml, NL, "doc_list_dir", NL, Fence>>,
        <<Fence, NL, "doc_finish", NL, Fence>>,
        <<Prose, NL, Fence, TagYaml, NL, "doc_grep_search", NL, Fence, NL, Prose>>}

\* a text as the list of its lines: text.split('\n'); the empty text is <<"">>
EmptyText == <<"">>

\* what read_file may return: (content, success)
ReadOutcomes ==
  {<<<<"def f():", "    pass">>, TRUE>>,
   <<EmptyText, TRUE>>,
   <<<<"Error: file not found">>, FALSE>>}

\* what grep_search may return: (success, matches)
GrepOutcomes ==
  {<<PyBool(TRUE), PyList(<<>>)>>,
   <<PyBool(TRUE), PyList(<<[file |-> "main.py", line |-> "1", content |-> "x"]>>)>>,
   <<PyBool(FALSE), PyList(<<>>)>>}

\* what a primitive that returns (success, message) may return
MessageOutcomes == {<<TRUE, "done">>, <<FALSE, "failed">>}

\* a prep that hands the file name on without the working directory
FullPathNoRoot(working_dir, path) ==
  <<path>>

\* os.path.join(working_dir, path) if working_dir else path
FullPath(working_dir, path) ==
  IF working_dir # "" THEN <<working_dir, path>> ELSE <<path>>

(***************************************************************************)
(* The state of a run.                                                     *)
(***************************************************************************)
VARIABLES
  curr,             \* Flow._orch: the node to run next, None when the flow has ended
  fault,            \* the exception that left the run, "" when there is none
  history,          \* shared["history"]
  iteration_count,  \* shared["iteration_count"]
  max_iterations,   \* shared["max_iterations"]
  response,         \* shared["response"]
  edit_operations,  \* shared["edit_operations"], Absent when the key is not there
  edit_reasoning,   \* shared["edit_reasoning"], Absent when the key is not there
  llm_calls,        \* the calls of call_llm so far: the prompt and the answer
  calls,            \* the calls of file primitives so far
  ran,              \* the nodes run so far
  disk_lines,       \* the lines of the file an edit is applied to
  original_lines,   \* the lines of that file when the applier was entered
  batch,            \* the operations prep returned that exec has not run for yet
  stage,            \* where a run followed step by step stands
  limit             \* the max_iterations argument of run_flow_with_limit

vars == <<curr, fault, history, iteration_count, max_iterations, response,
          edit_operations, edit_reasoning, llm_calls, calls, ran,
          disk_lines, original_lines, batch, stage, limit>>

\* the applier is followed method by method, on a file whose lines are known,
\* only under PatchSpec
PatchFrame == UNCHANGED <<disk_lines, original_lines, batch, stage, limit>>

\* a key that shared does not hold
Absent == [py |-> "absent"]

\* run_flow's shared store, then run_flow_with_limit(shared, max_iterations)
Init ==
  /\ curr = "main_agent"
  /\ fault = ""
  /\ history = <<>>
  /\ iteration_count = 0
  /\ max_iterations \in 1..MaxM
  /\ limit = max_iterations
  /\ response = PyNone
  /\ edit_operations = Absent
  /\ edit_reasoning = Absent
  /\ llm_calls = <<>>
  /\ calls = <<>>
  /\ ran = <<>>
  /\ disk_lines = <<>>
  /\ original_lines = <<>>
  /\ batch = <<>>
  /\ stage = "idle"

\* a call of call_llm that raised, and one that returned llm_response
LLMFault(prompt) == prompt @@ [ok |-> FALSE, answer |-> <<>>]

LLMAnswer(prompt, llm_response) == prompt @@ [ok |-> TRUE, answer |-> llm_response]

\* a flow that runs its node again after the node raised
RunningDespiteFault(node) == curr = node

\* node is the node the flow runs now
Running(node) == curr = node /\ fault = ""

\* a node that swallows the exception and hands control back to the decision
\* node
RaiseSwallowed(error) ==
  /\ fault' = fault
  /\ curr' = "main_agent"
  /\ UNCHANGED <<history, response, calls>>

\* the node raises: the exception leaves Flow.run
Raise(error) ==
  /\ fault' = error
  /\ UNCHANGED <<curr, history, response, calls>>

\* history[-1]["result"] = result
SetResult(history_, result) ==
  [history_ EXCEPT ![Len(history_)] = [result |-> result] @@ @]

(***************************************************************************)
(* MainDecisionAgent: prep, exec and post.                                 *)
(***************************************************************************)
\* prep: the query handed to exec for the iteration numbered count
PrepQuery(count, max_, user_query) ==
  IF count > max_ THEN "finish" ELSE user_query

\* post: the decision appended to history, then the action exec_res["tool"]
MainDecisionPost(exec_res) ==
  /\ history' = Append(history, exec_res)
  /\ IF exec_res.py # "dict"
       THEN /\ fault' = "TypeError: string indices must be integers"
            /\ curr' = curr
       ELSE /\ fault' = fault
            /\ curr' = MainFlowNext("main_agent", exec_res.tool)

MainDecisionAgent ==
  /\ Running("main_agent")
  /\ PatchFrame
  /\ iteration_count < MaxSteps
  /\ iteration_count' = iteration_count + 1
  /\ ran' = Append(ran, "main_agent")
  /\ UNCHANGED <<max_iterations, edit_operations, edit_reasoning>>
  /\ IF FormatHistoryError(history) # ""
       THEN /\ Raise(FormatHistoryError(history))
            /\ UNCHANGED llm_calls
       ELSE LET prompt ==
                  [node |-> "main_agent",
                   user_query |-> PrepQuery(iteration_count + 1, max_iterations, UserQuery),
                   actions |-> Len(history)]
            IN  /\ UNCHANGED <<response, calls>>
                /\ \/ /\ llm_calls' = Append(llm_calls, LLMFault(prompt))
                      /\ fault' = "call_llm: transport fault"
                      /\ UNCHANGED <<curr, history>>
                   \/ \E llm_response \in DecisionResponses :
                        /\ llm_calls' = Append(llm_calls, LLMAnswer(prompt, llm_response))
                        /\ MainDecisionPost(ParseDecision(llm_response))

(***************************************************************************)
(* The action nodes.                                                       *)
(***************************************************************************)
\* a prep that only looks whether the key is there, not whether it is empty
ParamErrorPresenceOnly(history_, key) ==
  IF history_ = <<>> THEN "ValueError: No history found"
  ELSE IF "params" \notin Keys(Last(history_)) THEN "KeyError: 'params'"
  ELSE IF key \notin DOMAIN Last(history_).params
    THEN "ValueError: Missing parameter"
  ELSE ""

\* the error prep raises when it fetches the parameter named key, "" if none
ParamError(history_, key) ==
  IF history_ = <<>> THEN "ValueError: No history found"
  ELSE IF "params" \notin Keys(Last(history_)) THEN "KeyError: 'params'"
  ELSE IF ~NonEmpty(Get(Last(history_).params, key))
    THEN "ValueError: Missing parameter"
  ELSE ""

\* post of an action node of the main flow: the result, then back by "default"
ActionPost(node, result, action) ==
  /\ history' = SetResult(history, result)
  /\ curr' = MainFlowNext(node, action)
  /\ UNCHANGED <<fault, response>>

Frame ==
  UNCHANGED <<iteration_count, max_iterations, llm_calls, edit_operations, edit_reasoning>>

ReadFileAction ==
  /\ Running("read_action")
  /\ PatchFrame
  /\ ran' = Append(ran, "read_action")
  /\ Frame
  /\ IF ParamError(history, "target_file") # ""
       THEN Raise(ParamError(history, "target_file"))
       ELSE \E exec_res \in ReadOutcomes :
              /\ calls' = Append(calls,
                   [prim |-> "read_file",
                    args |-> <<FullPath(WorkingDir, Last(history).params.target_file)>>,
                    ret |-> exec_res])
              /\ ActionPost("read_action",
                   [success |-> PyBool(exec_res[2]), content |-> exec_res[1]], PyNone)

GrepSearchAction ==
  /\ Running("grep_action")
  /\ PatchFrame
  /\ ran' = Append(ran, "grep_action")
  /\ Frame
  /\ IF history = <<>> THEN Raise("ValueError: No history found")
       ELSE IF "params" \notin Keys(Last(history)) THEN Raise("KeyError: 'params'")
       ELSE IF "query" \notin DOMAIN Last(history).params
         THEN Raise("ValueError: Missing parameter")
       ELSE \E exec_res \in GrepOutcomes :
              /\ calls' = Append(calls,
                   [prim |-> "grep_search",
                    args |-> <<Last(history).params.query, WorkingDir>>,
                    ret |-> exec_res])
              /\ LET matches == exec_res[1]
                     success == exec_res[2]
                 IN  ActionPost("grep_action",
                       [success |-> success, matches |-> matches], PyNone)

ListDirAction ==
  /\ Running("list_dir_action")
  /\ PatchFrame
  /\ ran' = Append(ran, "list_dir_action")
  /\ Frame
  /\ IF history = <<>> THEN Raise("ValueError: No history found")
       ELSE IF "params" \notin Keys(Last(history)) THEN Raise("KeyError: 'params'")
       ELSE \E exec_res \in MessageOutcomes :
              /\ calls' = Append(calls,
                   [prim |-> "list_dir",
                    args |-> <<FullPath(WorkingDir,
                       IF "relative_workspace_path" \in DOMAIN Last(history).params
                         THEN Last(history).params.relative_workspace_path
                         ELSE ".")>>,
                    ret |-> exec_res])
              /\ ActionPost("list_dir_action",
                   [success |-> PyBool(exec_res[1]), tree_visualization |-> exec_res[2]],
                   PyNone)

InsertFileAction ==
  /\ Running("insert_action")
  /\ PatchFrame
  /\ ran' = Append(ran, "insert_action")
  /\ Frame
  /\ IF ParamError(history, "target_file") # ""
       THEN Raise(ParamError(history, "target_file"))
       ELSE IF ParamError(history, "content") # ""
         THEN Raise(ParamError(history, "content"))
       ELSE \E exec_res \in MessageOutcomes :
              /\ calls' = Append(calls,
                   [prim |-> "insert_file",
                    args |-> <<FullPath(WorkingDir, Last(history).params.target_file),
                               Last(history).params.content>>,
                    ret |-> exec_res])
              /\ ActionPost("insert_action",
                   [success |-> PyBool(exec_res[1]), message |-> exec_res[2]], "default")

DeleteFileAction ==
  /\ Running("delete_action")
  /\ PatchFrame
  /\ ran' = Append(ran, "delete_action")
  /\ Frame
  /\ IF ParamError(history, "target_file") # ""
       THEN Raise(ParamError(history, "target_file"))
       ELSE \E exec_res \in MessageOutcomes :
              /\ calls' = Append(calls,
                   [prim |-> "delete_file",
                    args |-> <<FullPath(WorkingDir, Last(history).params.target_file)>>,
                    ret |-> exec_res])
              /\ ActionPost("delete_action",
                   [success |-> PyBool(exec_res[1]), message |-> exec_res[2]], PyNone)

CreateDirectoryAction ==
  /\ Running("create_dir_action")
  /\ PatchFrame
  /\ ran' = Append(ran, "create_dir_action")
  /\ Frame
  /\ IF ParamError(history, "target_dir") # ""
       THEN Raise(ParamError(history, "target_dir"))
       ELSE \E exec_res \in MessageOutcomes :
              /\ calls' = Append(calls,
                   [prim |-> "os.makedirs",
                    args |-> <<FullPath(WorkingDir, Last(history).params.target_dir)>>,
                    ret |-> exec_res])
              /\ ActionPost("create_dir_action",
                   [success |-> PyBool(exec_res[1]), message |-> exec_res[2]], "default")

\* exec returns a failure without calling shutil.rmtree when the path does
\* not exist or is not a directory
DeleteDirectoryAction ==
  /\ Running("delete_dir_action")
  /\ PatchFrame
  /\ ran' = Append(ran, "delete_dir_action")
  /\ Frame
  /\ IF ParamError(history, "target_dir") # ""
       THEN Raise(ParamError(history, "target_dir"))
       ELSE \/ \E message \in {"Directory does not exist", "Path is not a directory"} :
               /\ calls' = calls
               /\ ActionPost("delete_dir_action",
                    [success |-> PyBool(FALSE), message |-> message], "default")
            \/ \E exec_res \in MessageOutcomes :
               /\ calls' = Append(calls,
                    [prim |-> "shutil.rmtree",
                     args |-> <<FullPath(WorkingDir, Last(history).params.target_dir)>>,
                     ret |-> exec_res])
               /\ ActionPost("delete_dir_action",
                    [success |-> PyBool(exec_res[1]), message |-> exec_res[2]], "default")

(***************************************************************************)
(* The edit agent: ReadTargetFileNode, AnalyzeAndPlanNode, ApplyChangesNode.*)
(***************************************************************************)
\* what the Generation Client may answer to an edit-plan prompt
PlanResponses ==
  {Fenced(doc) : doc \in PlanDocs}
  \cup {<<"plan_two_ops">>,
        <<Prose>>,
        <<Fence, TagYaml, NL, Prose, NL, Fence>>,
        <<Fence, TagYaml, NL, Prose, NL, "plan_two_ops", NL, Fence>>,
        <<Prose, NL, Fence, NL, "plan_two_ops", NL, Fence>>}

ReadTargetFileNode ==
  /\ Running("read_target")
  /\ PatchFrame
  /\ ran' = Append(ran, "read_target")
  /\ Frame
  /\ IF ParamError(history, "target_file") # ""
       THEN Raise(ParamError(history, "target_file"))
       ELSE \E exec_res \in ReadOutcomes :
              /\ calls' = Append(calls,
                   [prim |-> "read_file",
                    args |-> <<FullPath(WorkingDir, Last(history).params.target_file)>>,
                    ret |-> exec_res])
              /\ history' = [history EXCEPT ![Len(history)] =
                               [file_content |-> exec_res[1]] @@ @]
              /\ curr' = EditFlowNext("read_target", PyNone)
              /\ UNCHANGED <<fault, response>>

\* a prep that does not look at file_content
AnalyzePrepErrorAnyContent(history_) ==
  IF history_ = <<>> THEN "ValueError: No history found"
  ELSE IF "params" \notin Keys(Last(history_)) THEN "KeyError: 'params'"
  ELSE IF ~NonEmpty(Get(Last(history_).params, "instructions"))
    THEN "ValueError: Missing instructions parameter"
  ELSE IF ~NonEmpty(Get(Last(history_).params, "code_edit"))
    THEN "ValueError: Missing code_edit parameter"
  ELSE ""

\* AnalyzeAndPlanNode.prep: the error it raises, "" if none
AnalyzePrepError(history_) ==
  IF history_ = <<>> THEN "ValueError: No history found"
  ELSE IF "params" \notin Keys(Last(history_)) THEN "KeyError: 'params'"
  ELSE IF \/ "file_content" \notin Keys(Last(history_))
          \/ Last(history_).file_content = EmptyText
    THEN "ValueError: File content not found"
  ELSE IF ~NonEmpty(Get(Last(history_).params, "instructions"))
    THEN "ValueError: Missing instructions parameter"
  ELSE IF ~NonEmpty(Get(Last(history_).params, "code_edit"))
    THEN "ValueError: Missing code_edit parameter"
  ELSE ""

\* the text handed to yaml.safe_load: the first fenced block tagged yaml, else
\* the first tagged yml, else the first fenced block, else nothing
ExtractPlanYaml(llm_response) ==
  IF Contains(llm_response, <<Fence, TagYaml>>)
    THEN Strip(Split0(Split1(llm_response, <<Fence, TagYaml>>), <<Fence>>))
  ELSE IF Contains(llm_response, <<Fence, TagYml>>)
    THEN Strip(Split0(Split1(llm_response, <<Fence, TagYml>>), <<Fence>>))
  ELSE IF Contains(llm_response, <<Fence>>)
    THEN Strip(Split1(llm_response, <<Fence>>))
  ELSE <<>>

\* a validation whose upper bound of the line numbers is one line too far
OperationErrorOffByOne(op, i, total_lines) ==
  LET name == "ValueError: Operation " \o ToString(i)
  IN  IF op.py # "dict" THEN name \o " must be a dictionary"
      ELSE IF "start_line" \notin Keys(op) THEN name \o " missing 'start_line'"
      ELSE IF "end_line" \notin Keys(op) THEN name \o " missing 'end_line'"
      ELSE IF "replacement" \notin Keys(op) THEN name \o " missing 'replacement'"
      ELSE IF ~IsInt(op.start_line) THEN name \o " 'start_line' must be an integer"
      ELSE IF ~IsInt(op.end_line) THEN name \o " 'end_line' must be an integer"
      ELSE IF op.replacement.py # "str" THEN name \o " 'replacement' must be a string"
      ELSE IF ~(1 <= IntValue(op.start_line) /\ IntValue(op.start_line) <= total_lines + 2)
        THEN name \o " 'start_line' out of range"
      ELSE IF ~(1 <= IntValue(op.end_line) /\ IntValue(op.end_line) <= total_lines + 2)
        THEN name \o " 'end_line' out of range"
      ELSE IF IntValue(op.start_line) > IntValue(op.end_line)
        THEN name \o " 'start_line' > 'end_line'"
      ELSE ""

\* the validation of operation number i of a plan: the error raised, "" if none
OperationError(op, i, total_lines) ==
  LET name == "ValueError: Operation " \o ToString(i)
  IN  IF op.py # "dict" THEN name \o " must be a dictionary"
      ELSE IF "start_line" \notin Keys(op) THEN name \o " missing 'start_line'"
      ELSE IF "end_line" \notin Keys(op) THEN name \o " missing 'end_line'"
      ELSE IF "replacement" \notin Keys(op) THEN name \o " missing 'replacement'"
      ELSE IF ~IsInt(op.start_line) THEN name \o " 'start_line' must be an integer"
      ELSE IF ~IsInt(op.end_line) THEN name \o " 'end_line' must be an integer"
      ELSE IF op.replacement.py # "str" THEN name \o " 'replacement' must be a string"
      ELSE IF ~(1 <= IntValue(op.start_line) /\ IntValue(op.start_line) <= total_lines + 1)
        THEN name \o " 'start_line' out of range"
      ELSE IF ~(1 <= IntValue(op.end_line) /\ IntValue(op.end_line) <= total_lines + 1)
        THEN name \o " 'end_line' out of range"
      ELSE IF IntValue(op.start_line) > IntValue(op.end_line)
        THEN name \o " 'start_line' > 'end_line'"
      ELSE ""

\* the validation of a loaded plan: the error raised, "" if none
PlanError(decision, total_lines) ==
  IF decision.py # "dict" THEN "ValueError: LLM response must be a YAML object"
  ELSE IF "reasoning" \notin Keys(decision) THEN "ValueError: Missing 'reasoning' field"
  ELSE IF "operations" \notin Keys(decision) THEN "ValueError: Missing 'operations' field"
  ELSE IF decision.operations.py # "list" THEN "ValueError: 'operations' field must be a list"
  ELSE IF decision.operations.items = <<>> THEN "ValueError: 'operations' list cannot be empty"
  ELSE LET ops == decision.operations.items
           bad == {i \in 1..Len(ops) : OperationError(ops[i], i, total_lines) # ""}
       IN  IF bad = {} THEN ""
           ELSE LET first == CHOOSE i \in bad : \A j \in bad : i <= j
                IN  OperationError(ops[first], first, total_lines)

\* AnalyzeAndPlanNode.exec after the call of the Generation Client: the error
\* it raises for a response on a file of total_lines lines, "" if none
AnalyzeExecError(llm_response, total_lines) ==
  IF ExtractPlanYaml(llm_response) = <<>> THEN "ValueError: No YAML object found in response"
  ELSE IF YamlLoad(ExtractPlanYaml(llm_response)).py = "error"
    THEN "ValueError: Invalid YAML format in LLM response"
  ELSE PlanError(YamlLoad(ExtractPlanYaml(llm_response)), total_lines)

\* a planner that swallows its validation fault and ends the edit
PlanFaultSwallowed(error) ==
  /\ fault' = fault
  /\ curr' = MainFlowNext("edit_agent", PyNone)
  /\ UNCHANGED <<edit_operations, edit_reasoning>>

\* exec raises a validation fault: post does not run
PlanFault(error) ==
  /\ fault' = error
  /\ UNCHANGED <<curr, edit_operations, edit_reasoning>>

AnalyzeAndPlanNode ==
  /\ Running("analyze_plan")
  /\ PatchFrame
  /\ ran' = Append(ran, "analyze_plan")
  /\ UNCHANGED <<iteration_count, max_iterations, history, response, calls>>
  /\ IF AnalyzePrepError(history) # ""
       THEN /\ fault' = AnalyzePrepError(history)
            /\ UNCHANGED <<curr, llm_calls, edit_operations, edit_reasoning>>
       ELSE LET file_lines == Last(history).file_content
                total_lines == Len(file_lines)
                prompt == [node |-> "analyze_plan", user_query |-> "",
                           actions |-> total_lines]
            IN  \/ /\ llm_calls' = Append(llm_calls, LLMFault(prompt))
                   /\ fault' = "call_llm: transport fault"
                   /\ UNCHANGED <<curr, edit_operations, edit_reasoning>>
                \/ \E llm_response \in PlanResponses :
                     /\ llm_calls' = Append(llm_calls, LLMAnswer(prompt, llm_response))
                     /\ IF AnalyzeExecError(llm_response, total_lines) # ""
                          THEN PlanFault(AnalyzeExecError(llm_response, total_lines))
                          ELSE LET exec_res == YamlLoad(ExtractPlanYaml(llm_response))
                               IN  /\ edit_reasoning' = exec_res.reasoning
                                   /\ edit_operations' = exec_res.operations
                                   /\ curr' = EditFlowNext("analyze_plan", PyNone)
                                   /\ fault' = fault

\* a prep that does not sort: the operations applied in the order of the plan
SortedOpsUnsorted(ops) == ops

\* a sort by start_line ascending: the operations applied top-down
SortedOpsAscending(ops) ==
  LET rank(i) == 1 + Cardinality({j \in 1..Len(ops) :
                      \/ IntValue(ops[j].start_line) < IntValue(ops[i].start_line)
                      \/ IntValue(ops[j].start_line) = IntValue(ops[i].start_line) /\ j < i})
  IN  [k \in 1..Len(ops) |-> ops[CHOOSE i \in 1..Len(ops) : rank(i) = k]]

\* sorted(edit_operations, key=start_line, reverse=True): a stable sort, equal
\* keys keep the order of the plan
SortedOps(ops) ==
  LET rank(i) == 1 + Cardinality({j \in 1..Len(ops) :
                      \/ IntValue(ops[j].start_line) > IntValue(ops[i].start_line)
                      \/ IntValue(ops[j].start_line) = IntValue(ops[i].start_line) /\ j < i})
  IN  [k \in 1..Len(ops) |-> ops[CHOOSE i \in 1..Len(ops) : rank(i) = k]]

\* ApplyChangesNode.prep: the operations handed to exec, one by one
ApplyPrep(shared_operations, full_path) ==
  IF shared_operations = Absent \/ shared_operations.items = <<>> THEN <<>>
  ELSE LET sorted_ops == SortedOps(shared_operations.items)
       IN  [k \in 1..Len(sorted_ops) |-> [target_file |-> full_path] @@ sorted_ops[k]]

\* a post whose success flag is any() of the outcomes instead of all()
ApplyResultAnySuccess(exec_res_list, reasoning) ==
  [success |-> PyBool(\E i \in 1..Len(exec_res_list) : exec_res_list[i][1]),
   operations |-> Len(exec_res_list),
   details |-> [i \in 1..Len(exec_res_list) |->
                  [success |-> PyBool(exec_res_list[i][1]),
                   message |-> exec_res_list[i][2]]],
   reasoning |-> IF reasoning = Absent THEN PyStr(<<>>) ELSE reasoning]

\* ApplyChangesNode.post: the result stored for the outcomes of the operations
ApplyResult(exec_res_list, reasoning) ==
  [success |-> PyBool(\A i \in 1..Len(exec_res_list) : exec_res_list[i][1]),
   operations |-> Len(exec_res_list),
   details |-> [i \in 1..Len(exec_res_list) |->
                  [success |-> PyBool(exec_res_list[i][1]),
                   message |-> exec_res_list[i][2]]],
   reasoning |-> IF reasoning = Absent THEN PyStr(<<>>) ELSE reasoning]

\* exec that hands end_line + 1 to replace_file, as if the end were exclusive
ExecArgsEndExclusive(op) ==
  <<op.target_file, IntValue(op.start_line), IntValue(op.end_line) + 1, op.replacement.words>>

\* exec that hands 0-based line numbers to replace_file
ExecArgsZeroBased(op) ==
  <<op.target_file, IntValue(op.start_line) - 1, IntValue(op.end_line) - 1, op.replacement.words>>

\* ApplyChangesNode.exec: the arguments of its call of replace_file
ExecArgs(op) ==
  <<op.target_file, IntValue(op.start_line), IntValue(op.end_line), op.replacement.words>>

\* a batch that stops at the first operation replace_file reports as failed
BatchResultsAbortEarly(outcomes) ==
  LET failed == {k \in 1..Len(outcomes) : ~outcomes[k][1]}
  IN  IF failed = {} THEN outcomes
      ELSE SubSeq(outcomes, 1, CHOOSE k \in failed : \A j \in failed : k <= j)

\* BatchNode: exec runs once per item of prep's list, whatever each returns
BatchResults(outcomes) ==
  outcomes

\* post that drops the operations and leaves the reasoning behind
PopPlanKeepsReasoning ==
  /\ edit_operations' = Absent
  /\ UNCHANGED edit_reasoning

\* ApplyChangesNode.post: shared.pop of edit_operations and edit_reasoning
PopPlan ==
  /\ edit_operations' = Absent
  /\ edit_reasoning' = Absent

ApplyChangesNode ==
  /\ Running("apply_changes")
  /\ PatchFrame
  /\ ran' = Append(ran, "apply_changes")
  /\ UNCHANGED <<iteration_count, max_iterations, llm_calls>>
  /\ IF (edit_operations # Absent /\ edit_operations.items # <<>>)
        /\ ParamError(history, "target_file") # ""
       THEN /\ Raise(ParamError(history, "target_file"))
            /\ UNCHANGED <<edit_operations, edit_reasoning>>
       ELSE LET ops == ApplyPrep(edit_operations,
                         FullPath(WorkingDir, Last(history).params.target_file))
            IN  \E outcomes \in [1..Len(ops) -> MessageOutcomes] :
                  LET exec_res_list == BatchResults(outcomes)
                  IN  /\ calls' = calls \o
                           [k \in 1..Len(exec_res_list) |->
                              [prim |-> "replace_file",
                               args |-> ExecArgs(ops[k]),
                               ret |-> exec_res_list[k]]]
                      /\ history' = SetResult(history,
                                      ApplyResult(exec_res_list, edit_reasoning))
                      /\ PopPlan
                      /\ curr' = EditFlowNext("apply_changes", PyNone)
                      /\ UNCHANGED <<fault, response>>

(***************************************************************************)
(* FormatResponseNode: the run's final response.                           *)
(***************************************************************************)
FormatResponseNode ==
  /\ Running("format_response")
  /\ PatchFrame
  /\ ran' = Append(ran, "format_response")
  /\ UNCHANGED <<iteration_count, max_iterations, history, calls,
                 edit_operations, edit_reasoning>>
  /\ IF history = <<>>
       THEN /\ response' = "No actions were performed."
            /\ curr' = GetNextNode(MainFlowSuccessors("format_response"), "done")
            /\ UNCHANGED <<fault, llm_calls>>
     ELSE IF FormatHistoryError(history) # ""
       THEN /\ fault' = FormatHistoryError(history)
            /\ UNCHANGED <<curr, response, llm_calls>>
     ELSE LET prompt == [node |-> "format_response", user_query |-> "",
                         actions |-> Len(history)]
          IN  \/ /\ llm_calls' = Append(llm_calls, LLMFault(prompt))
                 /\ fault' = "call_llm: transport fault"
                 /\ UNCHANGED <<curr, response>>
              \/ /\ llm_calls' = Append(llm_calls, LLMAnswer(prompt, <<"summary">>))
                 /\ response' = "summary"
                 /\ curr' = GetNextNode(MainFlowSuccessors("format_response"), "done")
                 /\ fault' = fault

Next ==
  \/ MainDecisionAgent
  \/ ReadFileAction
  \/ GrepSearchAction
  \/ ListDirAction
  \/ InsertFileAction
  \/ DeleteFileAction
  \/ CreateDirectoryAction
  \/ DeleteDirectoryAction
  \/ ReadTargetFileNode
  \/ AnalyzeAndPlanNode
  \/ ApplyChangesNode
  \/ FormatResponseNode

Spec == Init /\ [][Next]_vars

(***************************************************************************)
(* ApplyChangesNode on a file whose lines are known, followed method by    *)
(* method: prep, exec once for each operation, post.  The run is taken up  *)
(* where the planner has stored a plan that passed its validation.         *)
(***************************************************************************)
\* a file of n lines, each different from the others
FileOf(n) == [i \in 1..n |-> "line" \o ToString(i)]

\* the replacement texts of the plans, as lists of lines
Replacements == {<<>>, <<"a">>, <<"b", "c">>}

\* the operations that pass the planner's validation for total_lines lines
ValidOps(total_lines) ==
  {op \in {Op(s, e, r) : s \in 0..(total_lines + 2), e \in 0..(total_lines + 2),
                         r \in Replacements} :
     OperationError(op, 1, total_lines) = ""}

\* the operations lists of 1..MaxOps operations that pass the validation
ValidPlans(total_lines) ==
  UNION {[1..k -> ValidOps(total_lines)] : k \in 1..MaxOps}

\* replace_file: the lines start_line..end_line (1-based, inclusive) replaced
\* by the lines of the replacement; start_line = end_line = one past the last
\* line appends, as does any range that starts past the last line
ReplaceFile(lines, start_line, end_line, replacement) ==
  LET before == IF start_line - 1 < Len(lines) THEN start_line - 1 ELSE Len(lines)
  IN  SubSeq(lines, 1, before) \o replacement \o SubSeq(lines, end_line + 1, Len(lines))

PatchInit ==
  /\ original_lines \in {FileOf(n) : n \in 1..MaxLines}
  /\ disk_lines = original_lines
  /\ edit_operations \in {PyList(ops) : ops \in ValidPlans(Len(original_lines))}
  /\ edit_reasoning = PyStr(<<"why">>)
  /\ history = <<[file_content |-> original_lines] @@ DecisionDocValue("doc_edit_file")>>
  /\ curr = "apply_changes"
  /\ fault = ""
  /\ iteration_count = 1
  /\ max_iterations = MaxM
  /\ limit = MaxM
  /\ response = PyNone
  /\ llm_calls = <<>>
  /\ calls = <<>>
  /\ ran = <<"main_agent", "read_target", "analyze_plan">>
  /\ batch = <<>>
  /\ stage = "prep"

\* prep: the operations sorted, each with the path of the target file
\* (sorted() copies the list, not the dicts: the operations of the shared
\* list gain the path too, in the order of the plan)
ApplyChangesPrep ==
  /\ Running("apply_changes") /\ stage = "prep"
  /\ LET full_path == FullPath(WorkingDir, Last(history).params.target_file)
     IN  /\ batch' = ApplyPrep(edit_operations, full_path)
         /\ edit_operations' =
              IF edit_operations = Absent \/ edit_operations.items = <<>>
                THEN edit_operations
                ELSE PyList([k \in DOMAIN edit_operations.items |->
                       [target_file |-> full_path] @@ edit_operations.items[k]])
  /\ stage' = "exec"
  /\ UNCHANGED <<curr, fault, history, iteration_count, max_iterations, response,
                 edit_reasoning, llm_calls, calls, ran,
                 disk_lines, original_lines, limit>>

\* exec for the next operation of the batch: one call of replace_file
ApplyChangesExec ==
  /\ Running("apply_changes") /\ stage = "exec" /\ batch # <<>>
  /\ LET args == ExecArgs(Head(batch))
     IN  /\ disk_lines' = ReplaceFile(disk_lines, args[2], args[3], args[4])
         /\ calls' = Append(calls,
              [prim |-> "replace_file",
               args |-> args,
               ret |-> <<TRUE, "done">>])
  /\ batch' = Tail(batch)
  /\ UNCHANGED <<curr, fault, history, iteration_count, max_iterations, response,
                 edit_operations, edit_reasoning, llm_calls, ran,
                 original_lines, stage, limit>>

\* post, once exec has run for every operation
ApplyChangesPost ==
  /\ Running("apply_changes") /\ stage = "exec" /\ batch = <<>>
  /\ history' = SetResult(history,
                  ApplyResult([k \in 1..Len(calls) |-> calls[k].ret], edit_reasoning))
  /\ PopPlan
  /\ curr' = EditFlowNext("apply_changes", PyNone)
  /\ ran' = Append(ran, "apply_changes")
  /\ stage' = "done"
  /\ UNCHANGED <<fault, iteration_count, max_iterations, response, llm_calls, calls,
                 disk_lines, original_lines, batch, limit>>

PatchNext ==
  \/ ApplyChangesPrep
  \/ ApplyChangesExec
  \/ ApplyChangesPost

PatchSpec == PatchInit /\ [][PatchNext]_vars

(***************************************************************************)
(* The state machine of the engine: the state each node belongs to.        *)
(***************************************************************************)
MainFlowNodes ==
  {"main_agent", "read_action", "grep_action", "list_dir_action", "delete_action",
   "insert_action", "edit_agent", "create_dir_action", "delete_dir_action",
   "format_response"}

\* the nodes the decision node dispatches a non-finish tool to
DispatchTargets ==
  {"read_action", "grep_action", "list_dir_action", "delete_action",
   "insert_action", "read_target", "create_dir_action", "delete_dir_action"}

NonTerminalStates == Tools \ {"finish"}

\* the state, named by tool, of the node the flow runs; "ended" once the flow
\* has no node to run
StateOf(node) ==
  CASE node = "main_agent" -> "deciding"
    [] node = "read_action" -> "read_file"
    [] node = "grep_action" -> "grep_search"
    [] node = "list_dir_action" -> "list_dir"
    [] node = "delete_action" -> "delete_file"
    [] node = "insert_action" -> "insert_file"
    [] node \in {"read_target", "analyze_plan", "apply_changes"} -> "edit_file"
    [] node = "create_dir_action" -> "create_directory"
    [] node = "delete_dir_action" -> "delete_directory"
    [] node = "format_response" -> "finish"
    [] node = PyNone -> "ended"

\* the run has just come out of the decision node, which raised nothing
Decided == ran # <<>> /\ Last(ran) = "main_agent" /\ fault = ""

\* the calls of call_llm made by the decision node
DecisionCalls == {i \in DOMAIN llm_calls : llm_calls[i].node = "main_agent"}

\* yaml.safe_load gives no mapping with a tool key for the answer
NoToolMapping(answer) ==
  LET v == YamlLoad(ExtractDecisionYaml(answer))
  IN  v.py # "dict" \/ "tool" \notin Keys(v)

\* yaml.safe_load gives a mapping whose tool is "" or null for the answer
EmptyToolMapping(answer) ==
  LET v == YamlLoad(ExtractDecisionYaml(answer))
  IN  v.py = "dict" /\ "tool" \in Keys(v) /\ ~NonEmpty(v.tool)

\* the last call of call_llm is the decision node's, and it was answered
LastDecisionAnswered ==
  /\ ran # <<>> /\ Last(ran) = "main_agent"
  /\ llm_calls # <<>> /\ Last(llm_calls).node = "main_agent" /\ Last(llm_calls).ok
  /\ Last(llm_calls).actions = Len(history) - 1

(***************************************************************************)
(* The claims.                                                             *)
(***************************************************************************)
\* C1: in the iteration where the incremented iteration counter exceeds the
\* configured maximum, the action the decision node dispatches is "finish":
\* the flow goes on to format_response whatever the Generation Client answers.
C1_BeyondCapDispatchesFinish ==
  (Decided /\ iteration_count > max_iterations) => curr = "format_response"

\* C2: in the iteration where the counter exceeds the maximum the decision
\* node does not call the Generation Client: a run never sends more decision
\* prompts than max_iterations.
C2_NoDecisionPromptBeyondCap ==
  Cardinality(DecisionCalls) <= max_iterations

\* C3: the number of non-finish handlers dispatched in a run is at most
\* max_iterations.
C3_HandlersWithinCap ==
  Cardinality({i \in DOMAIN ran : ran[i] \in DispatchTargets}) <= max_iterations

\* C4: a run never ends normally (Flow.run returns, nothing raised) in a state
\* other than the one where the final response is set to a summary.
C4_NormalEndHasSummary ==
  (curr = PyNone /\ fault = "") => response # PyNone

\* C5: for every answer from which no mapping with a tool key can be obtained
\* the decision node raises nothing and returns the synthetic finish decision,
\* so finish is dispatched in that iteration and no file primitive is called
\* for it.
C5_MalformedBecomesFinish ==
  (LastDecisionAnswered /\ NoToolMapping(Last(llm_calls).answer)) =>
     /\ fault = ""
     /\ Last(history) = SyntheticFinish
     /\ curr = "format_response"

\* C6: an answer whose mapping has a tool key that is empty ("" or null) is
\* treated as malformed: the decision is the synthetic finish decision, not
\* the parsed mapping.
C6_EmptyToolBecomesFinish ==
  (LastDecisionAnswered /\ EmptyToolMapping(Last(llm_calls).answer)) =>
     Last(history) = SyntheticFinish

\* C7: the tool of every Action in history is one of the recognized action
\* names.
C7_HistoryToolsRecognized ==
  \A i \in DOMAIN history : history[i].py = "dict" => history[i].tool \in Tools

\* C8: every Action in history carries the three fields tool, reason and
\* params.
C8_HistoryActionsComplete ==
  \A i \in DOMAIN history :
    history[i].py = "dict" => {"tool", "reason", "params"} \subseteq Keys(history[i])

\* C9: in a run whose first decision is finish, no node other than the
\* decision node and the summary node runs, no file primitive is called, and
\* history holds exactly that one entry, also when the summary is produced.
C9_FinishFirstRunsNothingElse ==
  (history # <<>> /\ history[1].py = "dict" /\ history[1].tool = "finish") =>
     /\ Len(history) = 1
     /\ calls = <<>>
     /\ \A i \in DOMAIN ran : ran[i] \in {"main_agent", "format_response"}
     /\ Cardinality(DecisionCalls) = 1

\* C9 witness: the summary has been stored in a run whose first decision was
\* finish.
C9_Witness ==
  /\ history # <<>> /\ history[1].py = "dict" /\ history[1].tool = "finish"
  /\ response = "summary"
  /\ curr = PyNone

\* C10: the state machine starts in deciding; when the handler of a
\* non-terminal state completes without a fault (for edit_file: when the last
\* node of the edit agent does) the next state is deciding; from finish the
\* flow goes to no other state, and format_response is the only node of the
\* main flow without a successor.
C10_StateMachine ==
  /\ StateOf(curr) = "deciding"
  /\ \A node \in MainFlowNodes :
       (DOMAIN MainFlowSuccessors(node) = {}) <=> (node = "format_response")
  /\ [][(/\ StateOf(curr) \in NonTerminalStates
         /\ curr \notin {"read_target", "analyze_plan"}
         /\ fault' = "") => StateOf(curr') = "deciding"]_vars
  /\ [][StateOf(curr) = "finish" => StateOf(curr') \in {"finish", "ended"}]_vars

\* C10 witness: the handler of a non-terminal state has stored its result
\* and the engine is deciding again.
C10_Witness ==
  /\ curr = "main_agent" /\ fault = ""
  /\ Len(ran) >= 2 /\ Last(ran) \in DispatchTargets \cup {"apply_changes"}
  /\ Last(history).tool \in NonTerminalStates
  /\ "result" \in Keys(Last(history))

\* the entry has a result
HasResult(action) == "result" \in Keys(action)

\* the decision an entry of history was appended as: its tool, reason, params
DecisionOf(action) ==
  [k \in Keys(action) \ {"result", "file_content"} |-> action[k]]

\* C11: the result of an Action is absent when the Action is appended; it is
\* written by the handler before control returns to deciding, so that at
\* every entry to deciding every entry of history has a result; a result once
\* written never changes, and a step writes on no entry but the last.
C11_ResultSetOnceByHandler ==
  /\ [](Running("main_agent") => \A i \in DOMAIN history : HasResult(history[i]))
  /\ [][Len(history') > Len(history) => ~HasResult(Last(history'))]_vars
  /\ [][\A i \in DOMAIN history :
          /\ i \in DOMAIN history'
          /\ HasResult(history[i]) => HasResult(history'[i]) /\ history'[i].result = history[i].result
          /\ i < Len(history) => history'[i] = history[i]]_vars

\* C12: history is append-only: a decision iteration that raises nothing
\* appends exactly one Action, without a result, at the end of history; no
\* step appends more than one entry, removes an entry or reorders entries.
C12_HistoryAppendOnly ==
  /\ [][(Running("main_agent") /\ fault' = "") =>
          /\ Len(history') = Len(history) + 1
          /\ Last(history').py = "dict" /\ ~HasResult(Last(history'))]_vars
  /\ [][~Running("main_agent") => Len(history') = Len(history)]_vars
  /\ [][/\ Len(history') \in {Len(history), Len(history) + 1}
         /\ \A i \in DOMAIN history : DecisionOf(history'[i]) = DecisionOf(history[i])]_vars

\* the parameter the handler of a tool requires of the Action it runs for
RequiredParam ==
  [read_file |-> "target_file", delete_file |-> "target_file",
   insert_file |-> "target_file", edit_file |-> "target_file",
   grep_search |-> "query",
   create_directory |-> "target_dir", delete_directory |-> "target_dir"]

\* the last Action was dispatched to a handler and lacks the parameter the
\* handler requires: "query" not in params for grep_search, a target that is
\* absent, None or empty (not dir_path, not file_path) for the others
LacksRequiredParam ==
  /\ history # <<>>
  /\ Last(history).py = "dict"
  /\ {"tool", "params"} \subseteq Keys(Last(history))
  /\ Last(history).tool \in DOMAIN RequiredParam
  /\ IF Last(history).tool = "grep_search"
       THEN "query" \notin DOMAIN Last(history).params
       ELSE ~NonEmpty(Get(Last(history).params, RequiredParam[Last(history).tool]))

\* C13: when the last Action lacks the parameter its handler requires, the
\* only step the run takes is the handler raising: no file primitive is
\* called, the Action gets no result, the flow does not go back to the
\* decision node and no summary is stored.
C13_MissingParamAborts ==
  /\ [](LacksRequiredParam =>
          /\ ~HasResult(Last(history))
          /\ response = PyNone
          /\ StateOf(curr) = Last(history).tool)
  /\ [][LacksRequiredParam =>
          /\ fault' # ""
          /\ UNCHANGED <<curr, history, response, calls, llm_calls>>]_vars

\* C13 witness: the grep_search handler has raised for a second Action that
\* has no query, after the first Action's handler completed.
C13_Witness ==
  /\ LacksRequiredParam
  /\ Len(history) = 2 /\ HasResult(history[1])
  /\ Last(history).tool = "grep_search"
  /\ Last(ran) = "grep_action"
  /\ fault = "ValueError: Missing parameter"

\* the calls of call_llm that raised
FaultedCalls == {i \in DOMAIN llm_calls : ~llm_calls[i].ok}

\* C14: a transport fault of the Generation Client leaves the run: the call
\* that raised is the last call of the run (no retry), the node that made it
\* has stored nothing (no decision, synthetic or not, appended to history, no
\* plan, no final response) and no step follows.
C14_TransportFaultPropagates ==
  /\ [](\A i \in FaultedCalls :
          /\ i = Len(llm_calls)
          /\ fault = "call_llm: transport fault"
          /\ curr = llm_calls[i].node
          /\ response = PyNone
          /\ llm_calls[i].node \in {"main_agent", "format_response"} =>
                Len(history) = llm_calls[i].actions
          /\ llm_calls[i].node = "analyze_plan" => edit_operations = Absent)
  /\ [][FaultedCalls # {} => UNCHANGED vars]_vars

\* C14 witness: the Generation Client raised when asked for the final
\* summary of a run that had completed one handler.
C14_Witness ==
  /\ FaultedCalls # {}
  /\ Last(llm_calls).node = "format_response"
  /\ Len(history) = 2 /\ HasResult(history[1])
  /\ fault = "call_llm: transport fault"

\* the planner has just run and the Generation Client answered it
PlanAnswered ==
  /\ ran # <<>> /\ Last(ran) = "analyze_plan"
  /\ llm_calls # <<>> /\ Last(llm_calls).node = "analyze_plan" /\ Last(llm_calls).ok

\* the plan yaml.safe_load gives for the last answer
AnsweredPlan == YamlLoad(ExtractPlanYaml(Last(llm_calls).answer))

\* the line count of the snapshot the planner worked on
SnapshotLines == Len(Last(history).file_content)

\* 1 <= start_line <= end_line <= total_lines + 1
InRange(op, total_lines) ==
  /\ 1 <= IntValue(op.start_line)
  /\ IntValue(op.start_line) <= IntValue(op.end_line)
  /\ IntValue(op.end_line) <= total_lines + 1

\* the plan is a mapping with reasoning and a non-empty list of operations
\* that each hold two integers and a string
WellTyped(plan) ==
  /\ plan.py = "dict"
  /\ {"reasoning", "operations"} \subseteq Keys(plan)
  /\ plan.operations.py = "list" /\ plan.operations.items # <<>>
  /\ \A i \in DOMAIN plan.operations.items :
       LET op == plan.operations.items[i]
       IN  /\ op.py = "dict"
           /\ {"start_line", "end_line", "replacement"} \subseteq Keys(op)
           /\ IsInt(op.start_line) /\ IsInt(op.end_line)
           /\ op.replacement.py = "str"

\* the faults that name operation number k for a line number out of range
\* or an inverted range
RangeFaults(k) ==
  {"ValueError: Operation " \o ToString(k) \o rule :
     rule \in {" 'start_line' out of range", " 'end_line' out of range",
               " 'start_line' > 'end_line'"}}

\* C15: the planner hands over a plan only if every operation satisfies
\* 1 <= start_line <= end_line <= total_lines + 1 for the snapshot's line
\* count; a plan with an operation outside that (start_line = 0, end_line >
\* total_lines + 1, start_line > end_line) raises a fault that names the
\* 1-based index of the first such operation.
C15_PlanLineRangesValidated ==
  /\ (edit_operations # Absent) =>
       \A i \in DOMAIN edit_operations.items :
         InRange(edit_operations.items[i], SnapshotLines)
  /\ (PlanAnswered /\ WellTyped(AnsweredPlan)) =>
       LET ops == AnsweredPlan.operations.items
           bad == {i \in DOMAIN ops : ~InRange(ops[i], SnapshotLines)}
       IN  IF bad = {} THEN fault = "" /\ edit_operations = AnsweredPlan.operations
           ELSE /\ fault \in RangeFaults(CHOOSE i \in bad : \A j \in bad : i <= j)
                /\ edit_operations = Absent

\* C15 witness: the planner has rejected a plan whose second operation has
\* start_line = 0, after a first operation that is in range.
C15_Witness ==
  /\ PlanAnswered /\ WellTyped(AnsweredPlan)
  /\ Len(AnsweredPlan.operations.items) = 2
  /\ InRange(AnsweredPlan.operations.items[1], SnapshotLines)
  /\ IntValue(AnsweredPlan.operations.items[2].start_line) = 0
  /\ fault = "ValueError: Operation 2 'start_line' out of range"

\* the plan lacks reasoning or operations, or holds an empty one
IncompletePlan(plan) ==
  /\ plan.py = "dict"
  /\ \/ "reasoning" \notin Keys(plan)
     \/ ~Truthy(plan.reasoning)
     \/ "operations" \notin Keys(plan)
     \/ ~Truthy(plan.operations)

\* C16: the planner rejects with a validation fault every plan whose
\* reasoning is missing or empty and every plan whose operations list is
\* missing or empty: no such plan is handed to the applier.
C16_IncompletePlanRejected ==
  (PlanAnswered /\ IncompletePlan(AnsweredPlan)) =>
     /\ fault # ""
     /\ edit_operations = Absent
     /\ curr = "analyze_plan"

\* the validation fault the planner's exec raises for the last answer
AnsweredPlanFault == AnalyzeExecError(Last(llm_calls).answer, SnapshotLines)

\* C17: when the plan the Generation Client answered fails the planner's
\* validation the fault is fatal: it leaves the run from the planner, the
\* applier is not entered, no primitive is called after the read of the
\* snapshot (the file is not written), the edit Action gets no result, and
\* the run takes no further step (it does not go back to the decision node).
C17_PlanFaultIsFatal ==
  /\ []((PlanAnswered /\ AnsweredPlanFault # "") =>
          /\ fault = AnsweredPlanFault
          /\ curr = "analyze_plan"
          /\ edit_operations = Absent
          /\ Last(calls).prim = "read_file"
          /\ Last(history).tool = "edit_file" /\ ~HasResult(Last(history))
          /\ response = PyNone)
  /\ [][(PlanAnswered /\ AnsweredPlanFault # "") => UNCHANGED vars]_vars

\* C17 witness: the planner has raised for a plan with an inverted range, in
\* the second edit of a run whose first edit was applied.
C17_Witness ==
  /\ PlanAnswered
  /\ fault = "ValueError: Operation 1 'start_line' > 'end_line'"
  /\ Len(history) = 2 /\ history[1].tool = "edit_file" /\ HasResult(history[1])
  /\ \E i \in DOMAIN calls : calls[i].prim = "replace_file"

\* C18: the planner extracts the structured block as the Decision Parser
\* does: for the answer to a plan prompt the two extractions give the same
\* text, and an answer without a fence that is entirely a valid plan is
\* parsed and handed on as the plan, not rejected.
C18_PlannerExtractsAsParser ==
  PlanAnswered =>
    LET answer == Last(llm_calls).answer
        whole == YamlLoad(Strip(answer))
    IN  /\ ExtractPlanYaml(answer) = ExtractDecisionYaml(answer)
        /\ (/\ ~Contains(answer, <<Fence>>)
            /\ PlanError(whole, SnapshotLines) = "") =>
              /\ fault = ""
              /\ edit_operations = whole.operations

\* the applier has just completed
ApplyDone == ran # <<>> /\ Last(ran) = "apply_changes" /\ fault = ""

\* the operations of the plan the applier has just applied
AppliedPlan == AnsweredPlan.operations.items

\* the calls of file primitives the applier has just made
ApplyCalls == SubSeq(calls, Len(calls) - Len(AppliedPlan) + 1, Len(calls))

\* the call is replace_file for the operation
CallOf(call, op) ==
  /\ call.prim = "replace_file"
  /\ call.args[2] = IntValue(op.start_line)
  /\ call.args[3] = IntValue(op.end_line)
  /\ call.args[4] = op.replacement.words

\* C19: for one edit the applier calls replace_file once for each operation
\* of the plan and for nothing else, and the calls are in non-increasing
\* order of start_line: no operation is applied before one of the same plan
\* with a larger start_line.
C19_AppliedInDescendingOrder ==
  ApplyDone =>
    /\ Len(calls) > Len(AppliedPlan)
    /\ calls[Len(calls) - Len(AppliedPlan)].prim = "read_file"
    /\ \A i \in DOMAIN AppliedPlan :
         Cardinality({k \in DOMAIN ApplyCalls : CallOf(ApplyCalls[k], AppliedPlan[i])})
           = Cardinality({j \in DOMAIN AppliedPlan : AppliedPlan[j] = AppliedPlan[i]})
    /\ \A k \in DOMAIN ApplyCalls :
         \E i \in DOMAIN AppliedPlan : CallOf(ApplyCalls[k], AppliedPlan[i])
    /\ \A k, l \in DOMAIN ApplyCalls :
         k < l => ApplyCalls[k].args[2] >= ApplyCalls[l].args[2]

\* C19 witness: the applier has applied a plan of two operations that the
\* plan lists top-down, the lower one first.
C19_Witness ==
  /\ ApplyDone
  /\ Len(AppliedPlan) = 2
  /\ IntValue(AppliedPlan[1].start_line) < IntValue(AppliedPlan[2].start_line)
  /\ CallOf(ApplyCalls[1], AppliedPlan[2])
  /\ CallOf(ApplyCalls[2], AppliedPlan[1])

\* exec has run for every operation of the plan and post has not run yet
AllApplied == stage = "exec" /\ batch = <<>>

\* the inclusive line ranges of two operations share no line
NonOverlapping(op1, op2) ==
  \/ IntValue(op1.end_line) < IntValue(op2.start_line)
  \/ IntValue(op2.end_line) < IntValue(op1.start_line)

\* the file with the replacements of two operations, lo above hi in the
\* file, both put in by the line numbers of the original file
BothAtOnce(lines, lo, hi) ==
  SubSeq(lines, 1, IntValue(lo.start_line) - 1)
    \o lo.replacement.words
    \o SubSeq(lines, IntValue(lo.end_line) + 1, IntValue(hi.start_line) - 1)
    \o hi.replacement.words
    \o SubSeq(lines, IntValue(hi.end_line) + 1, Len(lines))

\* C20: for a plan of two operations whose line ranges do not overlap, the
\* applier (the operation with the larger start_line first, then the other
\* against the file as it then stands) leaves the file that has both
\* replacements put in by the line numbers of the original file.
C20_DescendingEqualsSimultaneous ==
  (AllApplied /\ Len(edit_operations.items) = 2
     /\ NonOverlapping(edit_operations.items[1], edit_operations.items[2])) =>
    LET op1 == edit_operations.items[1]
        op2 == edit_operations.items[2]
    IN  disk_lines = IF IntValue(op1.start_line) < IntValue(op2.start_line)
                       THEN BothAtOnce(original_lines, op1, op2)
                       ELSE BothAtOnce(original_lines, op2, op1)

\* C20 witness: both operations of a plan that lists the upper operation
\* first have been applied, and the upper one changed the number of lines.
C20_Witness ==
  /\ AllApplied /\ Len(edit_operations.items) = 2
  /\ NonOverlapping(edit_operations.items[1], edit_operations.items[2])
  /\ IntValue(edit_operations.items[1].start_line) < IntValue(edit_operations.items[2].start_line)
  /\ Len(edit_operations.items[1].replacement.words) > 1
  /\ IntValue(edit_operations.items[1].end_line) = IntValue(edit_operations.items[1].start_line)
  /\ IntValue(edit_operations.items[2].end_line) <= Len(original_lines)
  /\ Len(calls) = 2
  /\ disk_lines # original_lines

\* the orderings of the positions 1..n
Orderings(n) ==
  {f \in [1..n -> 1..n] : \A i, j \in 1..n : f[i] = f[j] => i = j}

\* no two operations of a plan share a line
PairwiseNonOverlapping(ops) ==
  \A i, j \in 1..Len(ops) : i # j => NonOverlapping(ops[i], ops[j])

\* the file after exec has run for every item of a batch, one by one
RECURSIVE RunBatch(_, _)
RunBatch(lines, items) ==
  IF items = <<>> THEN lines
  ELSE RunBatch(ReplaceFile(lines, ExecArgs(Head(items))[2], ExecArgs(Head(items))[3],
                            ExecArgs(Head(items))[4]),
                Tail(items))

\* C21: for a plan of pairwise non-overlapping operations, the file the
\* applier leaves is the file it would leave for the same operations listed
\* in any other order: prep sorts again by start_line descending, so the
\* order of the plan has no effect on the final file.
C21_PlanOrderIrrelevant ==
  (AllApplied /\ PairwiseNonOverlapping(edit_operations.items)) =>
    \A f \in Orderings(Len(edit_operations.items)) :
      RunBatch(original_lines,
               ApplyPrep(PyList([k \in 1..Len(edit_operations.items) |->
                                   edit_operations.items[f[k]]]),
                         FullPath(WorkingDir, Last(history).params.target_file)))
        = disk_lines

\* C21 witness: two non-overlapping operations listed in ascending order (a
\* deletion, then an append after the last line), both applied, so that the
\* other listing of the plan is the one already in descending order.
C21_Witness ==
  /\ AllApplied /\ Len(edit_operations.items) = 2
  /\ PairwiseNonOverlapping(edit_operations.items)
  /\ edit_operations.items[1].replacement.words = <<>>
  /\ IntValue(edit_operations.items[1].end_line) < IntValue(edit_operations.items[2].start_line)
  /\ IntValue(edit_operations.items[2].start_line) = Len(original_lines) + 1
  /\ edit_operations.items[2].replacement.words # <<>>
  /\ Len(calls) = 2
  /\ Len(disk_lines) > 0

\* C22: a plan of the single operation {start_line: k, end_line: k,
\* replacement: R} with 1 <= k <= N on a file of N lines leaves a file of
\* N - 1 + Len(R) lines: lines 1..k-1 as they were, then the lines of R from
\* line k on, then the former lines k+1..N.
C22_SingleLineReplacement ==
  (/\ AllApplied /\ Len(edit_operations.items) = 1
   /\ IntValue(edit_operations.items[1].start_line) = IntValue(edit_operations.items[1].end_line)
   /\ IntValue(edit_operations.items[1].start_line) \in 1..Len(original_lines)) =>
    LET k == IntValue(edit_operations.items[1].start_line)
        R == edit_operations.items[1].replacement.words
        N == Len(original_lines)
    IN  /\ Len(disk_lines) = N - 1 + Len(R)
        /\ \A i \in 1..(k - 1) : disk_lines[i] = original_lines[i]
        /\ \A i \in 1..Len(R) : disk_lines[k - 1 + i] = R[i]
        /\ \A i \in (k + 1)..N : disk_lines[i - 1 + Len(R)] = original_lines[i]

\* C22 witness: the middle line of a three-line file replaced by two lines;
\* the one call of replace_file has been made.
C22_Witness ==
  /\ AllApplied /\ Len(edit_operations.items) = 1
  /\ Len(original_lines) = 3
  /\ IntValue(edit_operations.items[1].start_line) = 2
  /\ IntValue(edit_operations.items[1].end_line) = 2
  /\ Len(edit_operations.items[1].replacement.words) = 2
  /\ Len(calls) = 1 /\ calls[1].prim = "replace_file"
  /\ Len(disk_lines) = 4

\* C23: a plan of the single operation with start_line = end_line =
\* total_lines + 1, total_lines being the planner's line count of the
\* snapshot, appends the replacement after the last line of the file and
\* leaves every line the file had unchanged.
C23_AppendAfterLastLine ==
  (/\ AllApplied /\ Len(edit_operations.items) = 1
   /\ IntValue(edit_operations.items[1].start_line) = SnapshotLines + 1
   /\ IntValue(edit_operations.items[1].end_line) = SnapshotLines + 1) =>
    disk_lines = original_lines \o edit_operations.items[1].replacement.words

\* C23 witness: two lines appended to a file of two lines by the operation
\* at line 3; replace_file was called with 3, 3.
C23_Witness ==
  /\ AllApplied /\ Len(edit_operations.items) = 1
  /\ SnapshotLines = 2
  /\ IntValue(edit_operations.items[1].start_line) = 3
  /\ IntValue(edit_operations.items[1].end_line) = 3
  /\ Len(calls) = 1 /\ calls[1].args[2] = 3 /\ calls[1].args[3] = 3
  /\ Len(disk_lines) = 4
  /\ SubSeq(disk_lines, 1, 2) = original_lines

\* C24: the applier does not stop at an operation replace_file reports as
\* failed: replace_file is called for every operation of the plan, those after
\* a failed one included, and the result records as many outcomes as the plan
\* has operations.
C24_NoEarlyAbort ==
  ApplyDone =>
    /\ Len(calls) > Len(AppliedPlan)
    /\ \A k \in DOMAIN ApplyCalls : ApplyCalls[k].prim = "replace_file"
    /\ \A k \in 1..(Len(AppliedPlan) - 1) :
         ~ApplyCalls[k].ret[1] => ApplyCalls[k + 1].prim = "replace_file"
    /\ Len(Last(history).result.details) = Len(AppliedPlan)

\* C24 witness: of a plan of two operations the first call of replace_file
\* reported failure and the second was made all the same; two outcomes are
\* recorded.
C24_Witness ==
  /\ ApplyDone
  /\ Len(AppliedPlan) = 2
  /\ ~ApplyCalls[1].ret[1]
  /\ ApplyCalls[2].prim = "replace_file"
  /\ ApplyCalls[2].ret[1]
  /\ Len(Last(history).result.details) = 2

\* C25: when the applier has finished an edit, the result of the edit Action
\* holds success = the conjunction of the flags replace_file returned,
\* operations = the number of operations, details = the (success, message)
\* of each call in the order of the calls, and reasoning = the reasoning of
\* the plan the planner produced for this same edit.
C25_EditResultShape ==
  ApplyDone =>
    LET res == Last(history).result
        n == Len(AppliedPlan)
    IN  /\ DOMAIN res = {"success", "operations", "details", "reasoning"}
        /\ res.success = PyBool(\A k \in 1..n : ApplyCalls[k].ret[1])
        /\ res.operations = n
        /\ Len(res.details) = n
        /\ \A k \in 1..n :
             res.details[k] = [success |-> PyBool(ApplyCalls[k].ret[1]),
                               message |-> ApplyCalls[k].ret[2]]
        /\ res.reasoning = AnsweredPlan.reasoning

\* C25 witness: an edit of two operations of which one call succeeded and
\* the other failed: success is false, both outcomes are in details and the
\* reasoning is the plan's.
C25_Witness ==
  /\ ApplyDone
  /\ Len(AppliedPlan) = 2
  /\ ApplyCalls[1].ret[1] /\ ~ApplyCalls[2].ret[1]
  /\ Last(history).result.success = PyBool(FALSE)
  /\ Last(history).result.operations = 2
  /\ Last(history).result.details[2].message = "failed"
  /\ Last(history).result.reasoning = PyStr(<<"why">>)

\* the number of times a node has run
RunsOf(node) == Cardinality({i \in DOMAIN ran : ran[i] = node})

\* C26: in deciding and in finish the session state holds neither
\* edit_operations nor edit_reasoning. The two exist only from the end of the
\* planner to the end of the applier, and while they exist they are the plan
\* the planner has just produced for the current edit, so that the plan of
\* one edit is never applied by a later one.
C26_PlanFieldsTransient ==
  /\ StateOf(curr) \in {"deciding", "finish"} =>
       (edit_operations = Absent /\ edit_reasoning = Absent)
  /\ (edit_operations # Absent \/ edit_reasoning # Absent) =>
       /\ curr = "apply_changes"
       /\ PlanAnswered
       /\ edit_operations = AnsweredPlan.operations
       /\ edit_reasoning = AnsweredPlan.reasoning

\* C26 witness: control is back in deciding after an edit whose plan was
\* stored and applied, and the two fields are gone.
C26_Witness ==
  /\ curr = "main_agent" /\ fault = ""
  /\ RunsOf("analyze_plan") = 1 /\ RunsOf("apply_changes") = 1
  /\ Last(ran) = "apply_changes"
  /\ HasResult(Last(history))
  /\ edit_operations = Absent /\ edit_reasoning = Absent

\* C27: file_content is transient: once the result of an edit is written and
\* control is back in deciding, the entry of the edit in history no longer
\* carries file_content.
C27_SnapshotDropped ==
  (curr = "main_agent" /\ fault = "") =>
    \A i \in DOMAIN history :
      HasResult(history[i]) => "file_content" \notin Keys(history[i])

\* C28: every list of operations handed to the applier is pairwise
\* non-overlapping: no two operations of it share a line, and no two start
\* at the same line.
C28_HandedOperationsDisjoint ==
  (curr = "apply_changes" /\ fault = "" /\ edit_operations # Absent) =>
    PairwiseNonOverlapping(edit_operations.items)

\* the read handler has just run and raised nothing
ReadDone == ran # <<>> /\ Last(ran) = "read_action" /\ fault = ""

\* C29: for a decision {tool: read_file, params: {target_file: p}} the
\* handler calls read_file exactly once, with the path join(working_dir, p),
\* and stores {success: ok, content: content} as the result of that entry, ok
\* and content being the values the call returned.
C29_ReadFileHandled ==
  ReadDone =>
    /\ Last(history).tool = "read_file"
    /\ calls # <<>>
    /\ Last(calls).prim = "read_file"
    /\ Last(calls).args = << <<WorkingDir, Last(history).params.target_file>> >>
    /\ Cardinality({k \in DOMAIN calls : calls[k].prim = "read_file"})
         = RunsOf("read_action") + RunsOf("read_target")
    /\ Last(history).result = [success |-> PyBool(Last(calls).ret[2]),
                               content |-> Last(calls).ret[1]]

\* C29 witness: a read of config.yaml that succeeded: the one call was made with
\* the joined path and its two lines and its flag are the result.
C29_Witness ==
  /\ ReadDone
  /\ Len(calls) = 1
  /\ calls[1].args[1] = <<WorkingDir, "config.yaml">>
  /\ calls[1].ret[2]
  /\ Last(history).result.success = PyBool(TRUE)
  /\ Len(Last(history).result.content) = 2

\* C30: the final response is unset until the summarization step, which runs
\* only after finish was dispatched; that step stores it once, from a summary
\* of the whole history, the finish Action included; once it is stored no
\* handler and no decision runs any more and the response never changes.
C30_ResponseStoredOnceAtEnd ==
  /\ [](response # PyNone =>
          /\ curr = PyNone
          /\ fault = ""
          /\ Last(ran) = "format_response"
          /\ RunsOf("format_response") = 1
          /\ history # <<>> /\ Last(history).tool = "finish"
          /\ Last(llm_calls).node = "format_response"
          /\ Last(llm_calls).actions = Len(history))
  /\ [](RunsOf("format_response") = 0 => response = PyNone)
  /\ [][response # PyNone => UNCHANGED vars]_vars
  /\ [][response' # response =>
          /\ curr = "format_response" /\ response = PyNone
          /\ history' = history]_vars

\* C30 witness: after a tool action and a finish decision the summary of the
\* two entries of history has been stored as the response and the flow has
\* no node left to run.
C30_Witness ==
  /\ response = "summary"
  /\ curr = PyNone
  /\ Len(history) = 2
  /\ history[2].tool = "finish"
  /\ HasResult(history[1])
  /\ Last(llm_calls).actions = 2

(***************************************************************************)
(* MainDecisionAgent.exec and post on responses of every shape: bare       *)
(* blocks, prose, and up to MaxBlocks fenced blocks, tagged or not, empty  *)
(* or not, with prose around them.                                         *)
(***************************************************************************)
\* the largest number of fenced blocks in a response
MaxBlocks == 2

\* what may stand before and after the fenced blocks of a response
ProseBefore == {<<>>, <<Prose, NL>>, <<ProseTool, NL>>}

ProseAfter == {<<>>, <<NL, Prose>>, <<NL, ProseTool>>}

\* an opening fence: tagged yaml, tagged yml, untagged
FenceOpens == {<<Fence, TagYaml, NL>>, <<Fence, TagYml, NL>>, <<Fence, NL>>}

\* a fenced block: the opening fence, the body, the closing fence
Block(open, body) ==
  open \o body \o (IF body = <<>> THEN <<>> ELSE <<NL>>) \o <<Fence>>

\* the bodies of the blocks of a response with several blocks
BlockBodies == {<<>>, <<"doc_read_file">>, <<"doc_finish">>}

\* the texts made of n fenced blocks, one per line
RECURSIVE BlockTexts(_)
BlockTexts(n) ==
  IF n = 0 THEN {<<>>}
  ELSE {Block(open, body) \o (IF rest = <<>> THEN <<>> ELSE <<NL>>) \o rest :
          open \in FenceOpens, body \in BlockBodies, rest \in BlockTexts(n - 1)}

\* the structured blocks: a decision mapping, with or without a fenced snippet
\* in a literal block
StructuredBlocks == {<<doc>> : doc \in DecisionDocs} \cup {FencedContentBlock}

\* the responses of the Generation Client the parser is run on
ParseInputs ==
  StructuredBlocks
  \cup {<<>>, <<Prose>>, <<Prose, ProseTool>>}
  \cup {before \o Block(open, block) \o after :
          before \in ProseBefore, open \in FenceOpens, block \in StructuredBlocks,
          after \in ProseAfter}
  \cup {before \o text \o after :
          before \in ProseBefore, after \in ProseAfter,
          text \in UNION {BlockTexts(n) : n \in 1..MaxBlocks}}

\* run_flow's shared store; the decision node is about to call call_llm
ParseInit ==
  /\ curr = "main_agent"
  /\ fault = ""
  /\ history = <<>>
  /\ iteration_count = 0
  /\ max_iterations = MaxM
  /\ limit = MaxM
  /\ response = PyNone
  /\ edit_operations = Absent
  /\ edit_reasoning = Absent
  /\ llm_calls = <<>>
  /\ calls = <<>>
  /\ ran = <<>>
  /\ disk_lines = <<>>
  /\ original_lines = <<>>
  /\ batch = <<>>
  /\ stage = "call"

\* prep (the iteration counter incremented) and exec up to the answer of
\* call_llm
DecisionCall ==
  /\ Running("main_agent") /\ stage = "call"
  /\ iteration_count' = iteration_count + 1
  /\ \E llm_response \in ParseInputs :
       llm_calls' = Append(llm_calls,
                      LLMAnswer([node |-> "main_agent",
                                 user_query |-> PrepQuery(iteration_count + 1,
                                                          max_iterations, UserQuery),
                                 actions |-> Len(history)],
                                llm_response))
  /\ stage' = "parse"
  /\ UNCHANGED <<curr, fault, history, max_iterations, response,
                 edit_operations, edit_reasoning, calls, ran,
                 disk_lines, original_lines, batch, limit>>

\* the rest of exec (extraction, yaml.safe_load, the except branch) and post
DecisionParse ==
  /\ Running("main_agent") /\ stage = "parse"
  /\ MainDecisionPost(ParseDecision(Last(llm_calls).answer))
  /\ ran' = Append(ran, "main_agent")
  /\ stage' = "parsed"
  /\ UNCHANGED <<iteration_count, max_iterations, response, edit_operations,
                 edit_reasoning, llm_calls, calls, disk_lines, original_lines,
                 batch, limit>>

ParseNext ==
  \/ DecisionCall
  \/ DecisionParse

ParseSpec == ParseInit /\ [][ParseNext]_vars

\* the response has been parsed and the decision appended
Parsed == stage = "parsed"

\* the response consists of the block in one fence, with prose around it
WrapsBlock(text, block) ==
  \E before \in ProseBefore, open \in FenceOpens, after \in ProseAfter :
    text = before \o Block(open, block) \o after

\* C31: extraction does not depend on the wrapping: a response that consists
\* of a structured block B in a fence (tagged yaml, tagged yml or untagged)
\* with prose before and after it gives the decision the bare block B gives.
C31_WrappingIrrelevant ==
  Parsed =>
    \A block \in StructuredBlocks :
      WrapsBlock(Last(llm_calls).answer, block) =>
        Last(history) = ParseDecision(block)

\* the fenced blocks of a text in their order: the tag after the opening
\* fence ("" for none) and the stripped body up to the closing fence
RECURSIVE FencedBlocks(_)
FencedBlocks(text) ==
  IF ~Contains(text, <<Fence>>) THEN <<>>
  ELSE LET rest == SubSeq(text, Find(text, <<Fence>>) + 1, Len(text))
           tag == IF rest # <<>> /\ rest[1] \in {TagYaml, TagYml} THEN rest[1] ELSE ""
           inner == IF tag = "" THEN rest ELSE Tail(rest)
           close == Find(inner, <<Fence>>)
       IN  <<[tag |-> tag,
              body |-> Strip(IF close = 0 THEN inner ELSE SubSeq(inner, 1, close - 1))]>>
             \o (IF close = 0 THEN <<>>
                 ELSE FencedBlocks(SubSeq(inner, close + 1, Len(inner))))

\* the text the layers of the claim select: the first non-empty block tagged
\* yaml, else the first non-empty block tagged yml, else the first fenced
\* block of any kind, and the whole response only when it has no fence
LayeredText(text) ==
  LET blocks == FencedBlocks(text)
      yaml_blocks == SelectSeq(blocks, LAMBDA b : b.tag = TagYaml /\ b.body # <<>>)
      yml_blocks == SelectSeq(blocks, LAMBDA b : b.tag = TagYml /\ b.body # <<>>)
  IN  IF yaml_blocks # <<>> THEN yaml_blocks[1].body
      ELSE IF yml_blocks # <<>> THEN yml_blocks[1].body
      ELSE IF blocks # <<>> THEN blocks[1].body
      ELSE Strip(text)

\* the decision exec returns once a text has been selected for yaml.safe_load
DecisionOfText(text) ==
  LET decision == YamlLoad(text)
  IN  IF decision.py = "error" THEN SyntheticFinish
      ELSE IF ~Truthy(decision) \/ ~HasTool(decision) THEN SyntheticFinish
      ELSE decision

\* C32: the extraction is layered in strict priority: a fenced block tagged
\* as the structured-data format is used when the response has one; when it
\* has none, or the tagged block is empty, the first fenced block of any kind
\* is used; the whole response is parsed only when it has no fence at all.
C32_LayeredExtraction ==
  Parsed => Last(history) = DecisionOfText(LayeredText(Last(llm_calls).answer))

\* the grep_search handler has just run and raised nothing
GrepDone == ran # <<>> /\ Last(ran) = "grep_action" /\ fault = ""

\* C33: after the grep_search handler the result of the Action has success =
\* the flag grep_search returned and matches = the list of matches it
\* returned: the two components of the returned pair are not exchanged.
C33_GrepResultNotSwapped ==
  GrepDone =>
    /\ Last(calls).prim = "grep_search"
    /\ Last(history).result.success = Last(calls).ret[1]
    /\ Last(history).result.matches = Last(calls).ret[2]

\* every entry of history is a whole decision: tool, reason and params
WholeDecisions(history_) ==
  \A i \in DOMAIN history_ : {"tool", "reason", "params"} \subseteq Keys(history_[i])

\* C34: rendering the history never faults: whenever the decision node or
\* the summary is about to run on a history of whole decisions with the
\* results the handlers wrote (after a grep_search with matches, with a
\* trailing finish), format_history_summary renders it without raising.
C34_HistoryRenders ==
  (curr \in {"main_agent", "format_response"} /\ fault = "" /\ WholeDecisions(history)) =>
    FormatHistoryError(history) = ""

\* the insert_file handler is the node that runs in the step
InsertRuns == curr = "insert_action" /\ fault = ""

\* target_file and content of the last decision are both non-empty
InsertParamsGiven ==
  /\ "params" \in Keys(Last(history))
  /\ NonEmpty(Get(Last(history).params, "target_file"))
  /\ NonEmpty(Get(Last(history).params, "content"))

\* C35: the insert_file handler calls insert_file if and only if target_file
\* and content are both non-empty; with an empty content (the key present,
\* its value the empty string) it raises a missing-parameter fault that ends
\* the run: no primitive is called and the Action gets no result.
C35_InsertNeedsContent ==
  [][InsertRuns =>
       /\ InsertParamsGiven =>
            /\ calls' = Append(calls, Last(calls'))
            /\ Last(calls').prim = "insert_file"
            /\ Last(calls').args = << <<WorkingDir, Last(history).params.target_file>>,
                                      Last(history).params.content >>
            /\ fault' = ""
       /\ ~InsertParamsGiven =>
            /\ calls' = calls
            /\ fault' # ""
            /\ history' = history
            /\ curr' = curr]_vars

\* C35 witness: the run has ended in the fault of the insert_file handler on
\* a decision whose content is the empty string; no primitive was called.
C35_Witness ==
  /\ ran # <<>> /\ Last(ran) = "insert_action"
  /\ fault = "ValueError: Missing parameter"
  /\ Get(Last(history).params, "target_file") = "new_file.txt"
  /\ Get(Last(history).params, "content") = ""
  /\ calls = <<>>
  /\ ~HasResult(Last(history))

\* the planner is the node that runs in the step
PlannerRuns == curr = "analyze_plan" /\ fault = ""

\* the snapshot read for the edit is not empty, and instructions and
\* code_edit of the decision are both non-empty
PlanInputsGiven ==
  /\ "file_content" \in Keys(Last(history))
  /\ Last(history).file_content # EmptyText
  /\ NonEmpty(Get(Last(history).params, "instructions"))
  /\ NonEmpty(Get(Last(history).params, "code_edit"))

\* C36: in the edit flow call_llm is asked for a plan exactly when the read
\* before the edit gave a non-empty content and instructions and code_edit
\* are non-empty, whatever success flag the read returned; when the content
\* is empty the planner raises a fault that ends the run, with no plan
\* requested and no call of replace_file after the read.
C36_PlanRequestedOnContent ==
  /\ [][PlannerRuns =>
          /\ PlanInputsGiven =>
               /\ Len(llm_calls') = Len(llm_calls) + 1
               /\ Last(llm_calls').node = "analyze_plan"
          /\ ~PlanInputsGiven =>
               /\ llm_calls' = llm_calls
               /\ fault' # ""
               /\ UNCHANGED <<curr, calls, history, edit_operations, edit_reasoning>>]_vars
  /\ [](fault = "ValueError: File content not found" =>
          /\ Last(ran) = "analyze_plan"
          /\ Last(calls).prim = "read_file"
          /\ Last(calls).ret[1] = EmptyText
          /\ Last(llm_calls).node = "main_agent")

\* C36 witness: a plan was requested and answered for an edit whose read
\* returned a failure flag with a non-empty content.
C36_Witness ==
  /\ PlanAnswered
  /\ Last(calls).prim = "read_file"
  /\ ~Last(calls).ret[2]
  /\ Last(calls).ret[1] # EmptyText
  /\ Last(history).file_content = Last(calls).ret[1]
  /\ fault = ""
  /\ curr = "apply_changes"

(***************************************************************************)
(* run_flow_with_limit(shared, max_iterations) as a whole: the reset of    *)
(* the counters of a shared store that may hold stale ones, the run of the *)
(* flow, and the removal of the counters when the flow has returned.       *)
(***************************************************************************)
\* what shared may hold under iteration_count and max_iterations when
\* run_flow_with_limit is called: nothing, or what an earlier run left
\* the value that stands for a counter key shared does not hold
NoKey == -1

StaleCounts == {NoKey, MaxSteps + 5}

StaleMaxima == {NoKey, 1}

\* a reset that keeps an iteration_count shared already holds
ResetCountersKeepsOld(max_) ==
  /\ iteration_count' = IF iteration_count = NoKey THEN 0 ELSE iteration_count
  /\ max_iterations' = max_

\* shared["iteration_count"] = 0; shared["max_iterations"] = max_iterations
ResetCounters(max_) ==
  /\ iteration_count' = 0
  /\ max_iterations' = max_

\* run_flow_with_limit is about to be called with the argument limit
LimitInit ==
  /\ curr = "main_agent"
  /\ fault = ""
  /\ history = <<>>
  /\ iteration_count \in StaleCounts
  /\ max_iterations \in StaleMaxima
  /\ limit \in 1..MaxM
  /\ response = PyNone
  /\ edit_operations = Absent
  /\ edit_reasoning = Absent
  /\ llm_calls = <<>>
  /\ calls = <<>>
  /\ ran = <<>>
  /\ disk_lines = <<>>
  /\ original_lines = <<>>
  /\ batch = <<>>
  /\ stage = "called"

\* the two assignments before the flow is run
RunFlowWithLimit ==
  /\ stage = "called"
  /\ ResetCounters(limit)
  /\ stage' = "running"
  /\ UNCHANGED <<curr, fault, history, response, edit_operations, edit_reasoning,
                 llm_calls, calls, ran, disk_lines, original_lines, batch, limit>>

\* coding_agent_flow.run(shared): a step of the flow
FlowStep == stage = "running" /\ Next

\* the flow has returned without an exception: the two shared.pop
ClearCounters ==
  /\ stage = "running" /\ curr = PyNone /\ fault = ""
  /\ iteration_count' = NoKey
  /\ max_iterations' = NoKey
  /\ stage' = "returned"
  /\ UNCHANGED <<curr, fault, history, response, edit_operations, edit_reasoning,
                 llm_calls, calls, ran, disk_lines, original_lines, batch, limit>>

LimitNext ==
  \/ RunFlowWithLimit
  \/ FlowStep
  \/ ClearCounters

LimitSpec == LimitInit /\ [][LimitNext]_vars

\* C37: run_flow_with_limit(shared, M) starts the flow with iteration_count
\* = 0 and max_iterations = M whatever shared held under the two keys, so
\* that the first decision is within the cap; when the flow has returned
\* normally neither key is in shared, and history and response are what the
\* flow left.
C37_CountersPerCall ==
  /\ [][stage = "called" =>
          /\ iteration_count' = 0
          /\ max_iterations' = limit
          /\ stage' = "running"]_vars
  /\ [](llm_calls # <<>> => llm_calls[1].user_query = UserQuery)
  /\ [](stage = "returned" =>
          /\ iteration_count = NoKey /\ max_iterations = NoKey
          /\ curr = PyNone /\ fault = "")
  /\ [][stage' = "returned" /\ stage = "running" =>
          /\ history' = history /\ history # <<>>
          /\ response' = response]_vars

\* C37 witness: run_flow_with_limit has returned after a run of two
\* decisions that ended with the summary: the counters are gone, history and
\* the response are there.
C37_Witness ==
  /\ stage = "returned"
  /\ iteration_count = NoKey /\ max_iterations = NoKey
  /\ limit = 2
  /\ Len(history) = 2
  /\ response = "summary"

====
